---------------------------- MODULE Spec2Model ----------------------------
(***************************************************************************)
(* A model of crio-credential-provider: the kubelet image credential       *)
(* provider that resolves, per image pull, the registry credentials of a   *)
(* namespace (internal/pkg/app, internal/pkg/k8s, internal/pkg/auth,       *)
(* internal/pkg/mirrors, pkg/auth).                                        *)
(*                                                                         *)
(* A Go string is a sequence of bytes (naturals 0..255); literals are       *)
(* written as tuples of ASCII codes with the text in a comment.            *)
(***************************************************************************)
EXTENDS Integers, Sequences, FiniteSets, TLC

-----------------------------------------------------------------------------
(* Bounds of the model. *)

\* longest secret list the API server hands back
MaxSecrets == 2
\* longest mirror list the registries configuration resolves to
MaxMirrors == 2
\* longest namespace name a token asserts
MaxNsLen == 2
\* longest text behind an auth string handed to decodeDockerAuth on its own
MaxAuthLen == 4
\* most scheme prefixes before the host of a registry key
MaxSchemes == 2

-----------------------------------------------------------------------------
(* Strings. *)

\* the ':' that strings.Cut splits on
Colon == 58
\* the "\x00" cutset of strings.Trim
NUL == 0

\* "https://"
HTTPS == <<104, 116, 116, 112, 115, 58, 47, 47>>
\* "http://"
HTTP == <<104, 116, 116, 112, 58, 47, 47>>

\* strings.HasPrefix(s, prefix)
HasPrefix(s, prefix) ==
    /\ Len(prefix) <= Len(s)
    /\ SubSeq(s, 1, Len(prefix)) = prefix

\* index of the first byte of s equal to c, 0 when there is none
RECURSIVE IndexByte(_, _, _)
IndexByte(s, c, from) ==
    IF from > Len(s) THEN 0
    ELSE IF s[from] = c THEN from
    ELSE IndexByte(s, c, from + 1)

\* strings.Cut(s, ":")
Cut(s) ==
    LET i == IndexByte(s, Colon, 1)
    IN  IF i = 0
        THEN [before |-> s, after |-> <<>>, found |-> FALSE]
        ELSE [before |-> SubSeq(s, 1, i - 1),
              after  |-> SubSeq(s, i + 1, Len(s)),
              found  |-> TRUE]

RECURSIVE TrimLeft(_, _)
TrimLeft(s, c) ==
    IF Len(s) > 0 /\ s[1] = c THEN TrimLeft(Tail(s), c) ELSE s

RECURSIVE TrimRight(_, _)
TrimRight(s, c) ==
    IF Len(s) > 0 /\ s[Len(s)] = c
    THEN TrimRight(SubSeq(s, 1, Len(s) - 1), c)
    ELSE s

\* strings.Trim(s, "\x00"): leading and trailing bytes of the cutset go
Trim(s, c) == TrimRight(TrimLeft(s, c), c)

-----------------------------------------------------------------------------
(* encoding/base64, StdEncoding: the standard alphabet, '=' padding, and    *)
(* a decoder that is not strict about the unused trailing bits.            *)

\* the character of a 6-bit value
B64Char(v) ==
    IF v < 26 THEN 65 + v
    ELSE IF v < 52 THEN 97 + (v - 26)
    ELSE IF v < 62 THEN 48 + (v - 52)
    ELSE IF v = 62 THEN 43
    ELSE 47

\* the 6-bit value of a character, -1 for a character outside the alphabet
B64Val(c) ==
    IF c >= 65 /\ c <= 90 THEN c - 65
    ELSE IF c >= 97 /\ c <= 122 THEN c - 97 + 26
    ELSE IF c >= 48 /\ c <= 57 THEN c - 48 + 52
    ELSE IF c = 43 THEN 62
    ELSE IF c = 47 THEN 63
    ELSE -1

\* '='
B64Pad == <<61>>

\* base64.StdEncoding.EncodeToString
RECURSIVE EncodeToString(_)
EncodeToString(b) ==
    IF Len(b) = 0 THEN <<>>
    ELSE IF Len(b) = 1 THEN
        <<B64Char(b[1] \div 4), B64Char((b[1] % 4) * 16)>> \o B64Pad \o B64Pad
    ELSE IF Len(b) = 2 THEN
        <<B64Char(b[1] \div 4),
          B64Char((b[1] % 4) * 16 + b[2] \div 16),
          B64Char((b[2] % 16) * 4)>> \o B64Pad
    ELSE
        <<B64Char(b[1] \div 4),
          B64Char((b[1] % 4) * 16 + b[2] \div 16),
          B64Char((b[2] % 16) * 4 + b[3] \div 64),
          B64Char(b[3] % 64)>> \o EncodeToString(SubSeq(b, 4, Len(b)))

\* the decoder drops '\r' and '\n' before it looks at the input
RECURSIVE StripNewlines(_)
StripNewlines(s) ==
    IF Len(s) = 0 THEN <<>>
    ELSE IF s[1] = 10 \/ s[1] = 13 THEN StripNewlines(Tail(s))
    ELSE <<s[1]>> \o StripNewlines(Tail(s))

\* one quantum of four characters at a time; padding only ends the input
RECURSIVE DecodeQuanta(_)
DecodeQuanta(s) ==
    IF Len(s) = 0 THEN [err |-> FALSE, bytes |-> <<>>]
    ELSE IF Len(s) < 4 THEN [err |-> TRUE, bytes |-> <<>>]
    ELSE
        LET a == B64Val(s[1])
            b == B64Val(s[2])
            c == B64Val(s[3])
            d == B64Val(s[4])
            last == Len(s) = 4
        IN  IF a < 0 \/ b < 0 THEN [err |-> TRUE, bytes |-> <<>>]
            ELSE IF c >= 0 /\ d >= 0 THEN
                LET rest == DecodeQuanta(SubSeq(s, 5, Len(s)))
                IN  [err   |-> rest.err,
                     bytes |-> IF rest.err THEN <<>>
                               ELSE <<a * 4 + b \div 16,
                                      (b % 16) * 16 + c \div 4,
                                      (c % 4) * 64 + d>> \o rest.bytes]
            ELSE IF last /\ c >= 0 /\ <<s[4]>> = B64Pad THEN
                [err |-> FALSE,
                 bytes |-> <<a * 4 + b \div 16, (b % 16) * 16 + c \div 4>>]
            ELSE IF last /\ <<s[3]>> = B64Pad /\ <<s[4]>> = B64Pad THEN
                [err |-> FALSE, bytes |-> <<a * 4 + b \div 16>>]
            ELSE [err |-> TRUE, bytes |-> <<>>]

\* base64.StdEncoding.DecodeString
DecodeString(s) == DecodeQuanta(StripNewlines(s))


-----------------------------------------------------------------------------
(* internal/pkg/docker and the maps of internal/pkg/auth.                  *)
(*                                                                         *)
(* A Go map is a function whose domain is its key set.  A docker.ConfigJSON *)
(* is [nil, Auths]: nil tells a nil Auths map from an empty one.  A         *)
(* docker.AuthConfig is [Auth]; a docker.ConfigEntry is                     *)
(* [Username, Password].                                                   *)

EmptyMap == [k \in {} |-> <<>>]

\* m[k] = v
Put(m, k, v) == [x \in DOMAIN m \cup {k} |-> IF x = k THEN v ELSE m[x]]

\* docker.ConfigEntry{}
ZeroConfigEntry == [Username |-> <<>>, Password |-> <<>>]

\* docker.ConfigJSON{} : the Auths map is nil
ZeroConfigJSON == [nil |-> TRUE, Auths |-> EmptyMap]

\* corev1.SecretTypeDockerConfigJson
SecretTypeDockerConfigJson == "kubernetes.io/dockerconfigjson"
\* corev1.SecretTypeOpaque
SecretTypeOpaque == "Opaque"
\* corev1.DockerConfigJsonKey
DockerConfigJsonKey == ".dockerconfigjson"

\* index of the last byte of s equal to c at or before from, 0 when there is
\* none
RECURSIVE LastIndexByte(_, _, _)
LastIndexByte(s, c, from) ==
    IF from < 1 THEN 0
    ELSE IF s[from] = c THEN from
    ELSE LastIndexByte(s, c, from - 1)

\* decodeDockerAuth that splits at the last ':' of the decoded text
decodeDockerAuthLastColon(conf) ==
    LET decoded == DecodeString(conf.Auth)
        i == LastIndexByte(decoded.bytes, Colon, Len(decoded.bytes))
    IN  IF decoded.err THEN [err |-> TRUE, entry |-> ZeroConfigEntry]
        ELSE IF i = 0 THEN [err |-> FALSE, entry |-> ZeroConfigEntry]
        ELSE [err   |-> FALSE,
              entry |-> [Username |-> SubSeq(decoded.bytes, 1, i - 1),
                         Password |-> Trim(SubSeq(decoded.bytes, i + 1,
                                                  Len(decoded.bytes)), NUL)]]

\* decodeDockerAuth that takes a text without ':' for an error
decodeDockerAuthStrict(conf) ==
    LET decoded == DecodeString(conf.Auth)
        cut == Cut(decoded.bytes)
    IN  IF decoded.err \/ ~cut.found THEN [err |-> TRUE, entry |-> ZeroConfigEntry]
        ELSE [err   |-> FALSE,
              entry |-> [Username |-> cut.before,
                         Password |-> Trim(cut.after, NUL)]]

\* decodeDockerAuth: [err, entry]
decodeDockerAuth(conf) ==
    LET decoded == DecodeString(conf.Auth)
        cut == Cut(decoded.bytes)
    IN  IF decoded.err THEN [err |-> TRUE, entry |-> ZeroConfigEntry]
        ELSE IF ~cut.found THEN [err |-> FALSE, entry |-> ZeroConfigEntry]
        ELSE [err   |-> FALSE,
              entry |-> [Username |-> cut.before,
                         Password |-> Trim(cut.after, NUL)]]

\* normalizeSecretRegistry
normalizeSecretRegistry(reg) ==
    IF HasPrefix(reg, HTTPS) THEN SubSeq(reg, 9, Len(reg))
    ELSE IF HasPrefix(reg, HTTP) THEN SubSeq(reg, 8, Len(reg))
    ELSE reg

\* validDockerConfigSecret without the test of the secret's type
validDockerConfigSecretAnyType(secret) ==
    IF DockerConfigJsonKey \notin DOMAIN secret.Data
    THEN [err |-> TRUE, cfg |-> ZeroConfigJSON]
    ELSE IF ~secret.Data[DockerConfigJsonKey].json
    THEN [err |-> TRUE, cfg |-> ZeroConfigJSON]
    ELSE [err |-> FALSE, cfg |-> secret.Data[DockerConfigJsonKey].cfg]

\* validDockerConfigSecret: [err, cfg].  The payload of a data key is the
\* byte text of a JSON document; the model keeps what json.Unmarshal makes of
\* it: [json |-> FALSE] for a text that does not parse, and the decoded
\* docker.ConfigJSON otherwise.
validDockerConfigSecret(secret) ==
    IF secret.Type # SecretTypeDockerConfigJson
    THEN [err |-> TRUE, cfg |-> ZeroConfigJSON]
    ELSE IF DockerConfigJsonKey \notin DOMAIN secret.Data
    THEN [err |-> TRUE, cfg |-> ZeroConfigJSON]
    ELSE IF ~secret.Data[DockerConfigJsonKey].json
    THEN [err |-> TRUE, cfg |-> ZeroConfigJSON]
    ELSE [err |-> FALSE, cfg |-> secret.Data[DockerConfigJsonKey].cfg]

\* the mirror loop with the prefix test turned around: the registry name is
\* tested for the mirror as its prefix
RECURSIVE scanMirrorsReversed(_, _, _, _, _)
scanMirrorsReversed(auths, mirrors, trimmedRegistry, auth, j) ==
    IF j > Len(mirrors) THEN auths
    ELSE IF HasPrefix(trimmedRegistry, mirrors[j])
    THEN Put(auths, trimmedRegistry, auth)
    ELSE scanMirrorsReversed(auths, mirrors, trimmedRegistry, auth, j + 1)

\* the mirror loop with its break outside the test: it ends after the first
\* mirror, match or not
scanMirrorsBreakAlways(auths, mirrors, trimmedRegistry, auth, j) ==
    IF j > Len(mirrors) THEN auths
    ELSE IF HasPrefix(mirrors[j], trimmedRegistry)
    THEN Put(auths, trimmedRegistry, auth)
    ELSE auths

\* the mirror loop that stores the entry under the mirror that matched
RECURSIVE scanMirrorsKeyedByMirror(_, _, _, _, _)
scanMirrorsKeyedByMirror(auths, mirrors, trimmedRegistry, auth, j) ==
    IF j > Len(mirrors) THEN auths
    ELSE IF HasPrefix(mirrors[j], trimmedRegistry)
    THEN Put(auths, mirrors[j], auth)
    ELSE scanMirrorsKeyedByMirror(auths, mirrors, trimmedRegistry, auth, j + 1)

\* the mirror loop of updateAuthContents, from index j, with its break
RECURSIVE scanMirrors(_, _, _, _, _)
scanMirrors(auths, mirrors, trimmedRegistry, auth, j) ==
    IF j > Len(mirrors) THEN auths
    ELSE IF HasPrefix(mirrors[j], trimmedRegistry)
    THEN Put(auths, trimmedRegistry, auth)
    ELSE scanMirrors(auths, mirrors, trimmedRegistry, auth, j + 1)

\* the loop over one secret's Auths that leaves the secret at the first auth
\* string it cannot decode
RECURSIVE rangeAuthsLeavingAtBadEntry(_, _, _, _, _)
rangeAuthsLeavingAtBadEntry(auths, cfgAuths, order, image, mirrors) ==
    IF Len(order) = 0 THEN auths
    ELSE
        LET registry == Head(order)
            decoded == decodeDockerAuth(cfgAuths[registry])
            trimmedRegistry == normalizeSecretRegistry(registry)
            afterMirrors ==
                scanMirrors(auths, mirrors, trimmedRegistry, decoded.entry, 1)
            afterImage ==
                IF HasPrefix(image, trimmedRegistry)
                THEN Put(afterMirrors, trimmedRegistry, decoded.entry)
                ELSE afterMirrors
        IN  IF decoded.err
            THEN auths
            ELSE rangeAuthsLeavingAtBadEntry(afterImage, cfgAuths, Tail(order),
                                             image, mirrors)

\* the loop over one secret's dockerConfigJSON.Auths.  Go ranges over a map
\* in an unspecified order: order is the order this run happens to take.
RECURSIVE rangeAuths(_, _, _, _, _)
rangeAuths(auths, cfgAuths, order, image, mirrors) ==
    IF Len(order) = 0 THEN auths
    ELSE
        LET registry == Head(order)
            decoded == decodeDockerAuth(cfgAuths[registry])
            trimmedRegistry == normalizeSecretRegistry(registry)
            afterMirrors ==
                scanMirrors(auths, mirrors, trimmedRegistry, decoded.entry, 1)
            afterImage ==
                IF HasPrefix(image, trimmedRegistry)
                THEN Put(afterMirrors, trimmedRegistry, decoded.entry)
                ELSE afterMirrors
        IN  IF decoded.err
            THEN rangeAuths(auths, cfgAuths, Tail(order), image, mirrors)
            ELSE rangeAuths(afterImage, cfgAuths, Tail(order), image, mirrors)

\* the loop over secrets.Items, from index i
RECURSIVE rangeSecrets(_, _, _, _, _, _)
rangeSecrets(auths, items, orders, image, mirrors, i) ==
    IF i > Len(items) THEN auths
    ELSE
        LET valid == validDockerConfigSecret(items[i])
        IN  IF valid.err
            THEN rangeSecrets(auths, items, orders, image, mirrors, i + 1)
            ELSE rangeSecrets(
                     rangeAuths(auths, valid.cfg.Auths, orders[i], image, mirrors),
                     items, orders, image, mirrors, i + 1)

\* updateAuthContents, first half: the auths collected from the secrets
collectAuths(secrets, orders, image, mirrors) ==
    rangeSecrets(EmptyMap, secrets.Items, orders, image, mirrors, 1)

\* the value updateAuthContents stores for a collected entry
encodeEntry(e) ==
    [Auth |-> EncodeToString(e.Username \o <<Colon>> \o e.Password)]

\* the merge with the precedence turned around: a global entry is kept
mergeAuthsGlobalWins(globalAuthContents, auths) ==
    [nil   |-> FALSE,
     Auths |-> [k \in DOMAIN globalAuthContents.Auths \cup DOMAIN auths |->
                   IF k \in DOMAIN globalAuthContents.Auths
                   THEN globalAuthContents.Auths[k]
                   ELSE encodeEntry(auths[k])]]

\* updateAuthContents, second half: the collected auths laid over the global
\* auth file contents
mergeAuths(globalAuthContents, auths) ==
    [nil   |-> FALSE,
     Auths |-> [k \in DOMAIN globalAuthContents.Auths \cup DOMAIN auths |->
                   IF k \in DOMAIN auths
                   THEN encodeEntry(auths[k])
                   ELSE globalAuthContents.Auths[k]]]

\* updateAuthContents, fileContents := globalAuthContents: the struct is
\* copied, its Auths map is not.  What the caller's map holds once the merged
\* entries are stored in fileContents.Auths: a map that is not nil is the map
\* the entries are stored in, a nil one is replaced in the copy alone
sharedAuths(globalAuthContents, fileContents) ==
    IF globalAuthContents.nil THEN globalAuthContents.Auths
    ELSE fileContents.Auths

\* updateAuthContents
updateAuthContents(secrets, orders, globalAuthContents, image, mirrors) ==
    mergeAuths(globalAuthContents, collectAuths(secrets, orders, image, mirrors))

\* the earlier updateAuthContents (internal/pkg/auth/auth.go): its mirror loop
\* goes through every mirror and stores the entry at each match
RECURSIVE scanMirrorsEarlier(_, _, _, _, _)
scanMirrorsEarlier(auths, mirrors, trimmedRegistry, auth, j) ==
    IF j > Len(mirrors) THEN auths
    ELSE scanMirrorsEarlier(
             IF HasPrefix(mirrors[j], trimmedRegistry)
             THEN Put(auths, trimmedRegistry, auth)
             ELSE auths,
             mirrors, trimmedRegistry, auth, j + 1)

\* the earlier loop over one secret's dockerConfigJSON.Auths
RECURSIVE rangeAuthsEarlier(_, _, _, _, _)
rangeAuthsEarlier(auths, cfgAuths, order, image, mirrors) ==
    IF Len(order) = 0 THEN auths
    ELSE
        LET registry == Head(order)
            decoded == decodeDockerAuth(cfgAuths[registry])
            trimmedRegistry == normalizeSecretRegistry(registry)
            afterMirrors ==
                scanMirrorsEarlier(auths, mirrors, trimmedRegistry, decoded.entry, 1)
            afterImage ==
                IF HasPrefix(image, trimmedRegistry)
                THEN Put(afterMirrors, trimmedRegistry, decoded.entry)
                ELSE afterMirrors
        IN  IF decoded.err
            THEN rangeAuthsEarlier(auths, cfgAuths, Tail(order), image, mirrors)
            ELSE rangeAuthsEarlier(afterImage, cfgAuths, Tail(order), image, mirrors)

\* the earlier loop over secrets.Items
RECURSIVE rangeSecretsEarlier(_, _, _, _, _, _)
rangeSecretsEarlier(auths, items, orders, image, mirrors, i) ==
    IF i > Len(items) THEN auths
    ELSE
        LET valid == validDockerConfigSecret(items[i])
        IN  IF valid.err
            THEN rangeSecretsEarlier(auths, items, orders, image, mirrors, i + 1)
            ELSE rangeSecretsEarlier(
                     rangeAuthsEarlier(auths, valid.cfg.Auths, orders[i], image,
                                       mirrors),
                     items, orders, image, mirrors, i + 1)

\* the earlier updateAuthContents
updateAuthContentsEarlier(secrets, orders, globalAuthContents, image, mirrors) ==
    mergeAuths(globalAuthContents,
               rangeSecretsEarlier(EmptyMap, secrets.Items, orders, image, mirrors, 1))

\* the orders in which a run may range over a map with key set keys
MapOrders(keys) ==
    {o \in [1..Cardinality(keys) -> keys] : \A k \in keys : \E i \in DOMAIN o : o[i] = k}

\* one order per secret of the list (the empty one for a skipped secret)
RECURSIVE IterationOrders(_)
IterationOrders(items) ==
    IF Len(items) = 0 THEN {<<>>}
    ELSE {<<o>> \o rest :
             o \in MapOrders(DOMAIN validDockerConfigSecret(Head(items)).cfg.Auths),
             rest \in IterationOrders(Tail(items))}

-----------------------------------------------------------------------------
(* internal/pkg/k8s.                                                       *)
(*                                                                         *)
(* A service account token is a JWT.  The model keeps of its text what     *)
(* jwt.Parser.ParseUnverified makes of it: form tells the empty string,    *)
(* the texts the parser rejects and a well-formed token; claims is the     *)
(* decoded claim set of a well-formed token, a map from claim names to      *)
(* JSON values.  A JSON value is [kind, str, fields]: kind is "string",     *)
(* "number", "bool" or "map", str the text of a string and fields the       *)
(* members of a map (JSON values without members of their own).            *)

\* k8sClaimKey
k8sClaimKey == "kubernetes.io"

\* jwt.Parser.ParseUnverified with jwt.MapClaims: [err, claims]
ParseUnverified(token) ==
    IF token.form = "jwt"
    THEN [err |-> FALSE, claims |-> token.claims]
    ELSE [err |-> TRUE, claims |-> EmptyMap]

\* ExtractNamespace that falls back to the namespace "n" where it should fail
ExtractNamespaceDefaulting(request) ==
    IF request.nil
    THEN [err |-> "errRequestEmpty", namespace |-> <<>>]
    ELSE IF request.ServiceAccountToken.form # "jwt"
              \/ k8sClaimKey \notin DOMAIN request.ServiceAccountToken.claims
              \/ request.ServiceAccountToken.claims[k8sClaimKey].kind # "map"
              \/ "namespace" \notin
                     DOMAIN request.ServiceAccountToken.claims[k8sClaimKey].fields
              \/ request.ServiceAccountToken.claims[k8sClaimKey]
                     .fields["namespace"].kind # "string"
    THEN [err |-> "", namespace |-> <<110>>]
    ELSE [err |-> "",
          namespace |-> request.ServiceAccountToken.claims[k8sClaimKey]
                            .fields["namespace"].str]

\* ExtractNamespace without the type assertion on the namespace field
ExtractNamespaceUnasserted(request) ==
    IF request.nil
    THEN [err |-> "errRequestEmpty", namespace |-> <<>>]
    ELSE IF request.ServiceAccountToken.form = "empty"
    THEN [err |-> "errTokenEmpty", namespace |-> <<>>]
    ELSE
        LET parsed == ParseUnverified(request.ServiceAccountToken)
            claims == parsed.claims
        IN  IF parsed.err
            THEN [err |-> "unable to parse JWT token", namespace |-> <<>>]
            ELSE IF k8sClaimKey \notin DOMAIN claims
            THEN [err |-> "no claim name in JWT claims found", namespace |-> <<>>]
            ELSE IF claims[k8sClaimKey].kind # "map"
            THEN [err |-> "errNoK8sClaimMap", namespace |-> <<>>]
            ELSE IF "namespace" \notin DOMAIN claims[k8sClaimKey].fields
            THEN [err |-> "errNoNamespaceInClaim", namespace |-> <<>>]
            ELSE [err |-> "",
                  namespace |-> claims[k8sClaimKey].fields["namespace"].str]

\* ExtractNamespace: [err, namespace]; err is "" on success
ExtractNamespace(request) ==
    IF request.nil
    THEN [err |-> "errRequestEmpty", namespace |-> <<>>]
    ELSE IF request.ServiceAccountToken.form = "empty"
    THEN [err |-> "errTokenEmpty", namespace |-> <<>>]
    ELSE
        LET parsed == ParseUnverified(request.ServiceAccountToken)
            claims == parsed.claims
        IN  IF parsed.err
            THEN [err |-> "unable to parse JWT token", namespace |-> <<>>]
            ELSE IF k8sClaimKey \notin DOMAIN claims
            THEN [err |-> "no claim name in JWT claims found", namespace |-> <<>>]
            ELSE IF claims[k8sClaimKey].kind # "map"
            THEN [err |-> "errNoK8sClaimMap", namespace |-> <<>>]
            ELSE IF "namespace" \notin DOMAIN claims[k8sClaimKey].fields
            THEN [err |-> "errNoNamespaceInClaim", namespace |-> <<>>]
            ELSE IF claims[k8sClaimKey].fields["namespace"].kind # "string"
            THEN [err |-> "errNamespaceNotString", namespace |-> <<>>]
            ELSE [err |-> "",
                  namespace |-> claims[k8sClaimKey].fields["namespace"].str]

\* RetrieveSecrets that takes a failed List call for an empty secret list
RetrieveSecretsLenient(cluster) ==
    IF cluster.clientErr
    THEN [err |-> "unable to connect to Kubernetes API", listed |-> FALSE,
          secrets |-> [nil |-> TRUE, Items |-> <<>>]]
    ELSE IF cluster.listErr # "none"
    THEN [err |-> "", listed |-> TRUE,
          secrets |-> [nil |-> FALSE, Items |-> <<>>]]
    ELSE [err |-> "", listed |-> TRUE, secrets |-> cluster.list]

\* RetrieveSecrets against a cluster [clientErr, listErr, list]: the client
\* function fails, or the List call fails (an API error, or the context's
\* deadline), or the secret list comes back.  [err, secrets, listed]: listed
\* tells whether the List call was made.
RetrieveSecrets(cluster) ==
    IF cluster.clientErr
    THEN [err |-> "unable to connect to Kubernetes API", listed |-> FALSE,
          secrets |-> [nil |-> TRUE, Items |-> <<>>]]
    ELSE IF cluster.listErr # "none"
    THEN [err |-> "unable to retrieve secrets", listed |-> TRUE,
          secrets |-> [nil |-> TRUE, Items |-> <<>>]]
    ELSE [err |-> "", listed |-> TRUE, secrets |-> cluster.list]

-----------------------------------------------------------------------------
(* internal/pkg/mirrors.                                                   *)

\* mirrors.Match against what sysregistriesv2.FindRegistry answers for the
\* image: resolver is [err, found, Mirrors].  [err, mirrors]
Match(request, resolver) ==
    IF request.nil \/ Len(request.Image) = 0
    THEN [err |-> "errRequestNilOrImageEmpty", mirrors |-> <<>>]
    ELSE IF resolver.err
    THEN [err |-> "loading registries configuration", mirrors |-> <<>>]
    ELSE IF ~resolver.found
    THEN [err |-> "", mirrors |-> <<>>]
    ELSE [err |-> "", mirrors |-> resolver.Mirrors]

-----------------------------------------------------------------------------
(* pkg/auth and the file system.                                           *)
(*                                                                         *)
(* The file system is [dirs, files]: dirs maps a directory to its mode,     *)
(* files maps a path to [data, json, mode], where data is "empty" (just     *)
(* created or truncated), "partial" (an encoder that failed midway) or      *)
(* "full", and json is the docker.ConfigJSON a full file holds.  A mode is  *)
(* written as the text of its octal form.                                  *)

\* filepath.IsAbs
IsAbs(dir) == Len(dir) > 0 /\ dir[1] = 47

\* hex of sha256.Sum256(image): 64 hex digits that stand for the image (a
\* digest is not computed here; two images have two digests)
Sum256Hex(imageRef) == [sha256 |-> imageRef]

\* the "" a failed call returns as its path
NoPath == [dir |-> <<>>, namespace |-> <<>>, sum |-> Sum256Hex(<<>>)]

\* auth.FilePath: [err, path]; the path dir/<namespace>-<digest>.json is
\* kept as its parts
FilePath(dir, ns, imageRef) ==
    IF ~IsAbs(dir)
    THEN [err |-> "directory is not an absolute path", path |-> NoPath]
    ELSE IF Len(ns) = 0
    THEN [err |-> "no namespace provided", path |-> NoPath]
    ELSE IF Len(imageRef) = 0
    THEN [err |-> "no image ref provided", path |-> NoPath]
    ELSE [err |-> "",
          path |-> [dir |-> dir, namespace |-> ns, sum |-> Sum256Hex(imageRef)]]

\* os.MkdirAll(dir, 0o700): a missing directory is made with mode 0700, one
\* that is there is left as it is
MkdirAll(filesystem, dir) ==
    [filesystem EXCEPT !.dirs =
        IF dir \in DOMAIN filesystem.dirs THEN filesystem.dirs
        ELSE Put(filesystem.dirs, dir, "0700")]

\* os.OpenFile(path, O_WRONLY|O_CREATE|O_TRUNC, 0o600): a missing file is
\* made with mode 0600, one that is there is cut to no bytes and keeps its mode
OpenFile(filesystem, p) ==
    [filesystem EXCEPT !.files =
        Put(filesystem.files, p,
            [data |-> "empty", json |-> ZeroConfigJSON,
             mode |-> IF p \in DOMAIN filesystem.files
                      THEN filesystem.files[p].mode ELSE "0600"])]

\* json.Encoder.Encode(fileContents) into the open file
Encode(filesystem, p, fileContents, ok) ==
    [filesystem EXCEPT !.files =
        Put(filesystem.files, p,
            [data |-> IF ok THEN "full" ELSE "partial",
             json |-> IF ok THEN fileContents ELSE ZeroConfigJSON,
             mode |-> filesystem.files[p].mode])]

\* a < b in the order of the bytes: the order json.Marshal sorts map keys in
RECURSIVE Less(_, _)
Less(a, b) ==
    IF Len(b) = 0 THEN FALSE
    ELSE IF Len(a) = 0 THEN TRUE
    ELSE IF a[1] # b[1] THEN a[1] < b[1]
    ELSE Less(Tail(a), Tail(b))

\* the keys of a map in that order
RECURSIVE SortedKeys(_)
SortedKeys(keys) ==
    IF keys = {} THEN <<>>
    ELSE LET first == CHOOSE k \in keys : \A x \in keys \ {k} : Less(k, x)
         IN  <<first>> \o SortedKeys(keys \ {first})

\* the text of a JSON string without its quotes: '"' and '\' get a '\'
\* before them, and '<', '>' and '&' are written as \u003c, \u003e and \u0026
\* (the encoder escapes HTML).  The keys and auth strings written here hold
\* no control bytes and are valid UTF-8.
RECURSIVE EscapeString(_)
EscapeString(t) ==
    IF Len(t) = 0 THEN <<>>
    ELSE (IF t[1] = 34 \/ t[1] = 92 THEN <<92, t[1]>>
          ELSE IF t[1] = 60 THEN <<92, 117, 48, 48, 51, 99>>
          ELSE IF t[1] = 62 THEN <<92, 117, 48, 48, 51, 101>>
          ELSE IF t[1] = 38 THEN <<92, 117, 48, 48, 50, 54>>
          ELSE <<t[1]>>) \o EscapeString(Tail(t))

\* a JSON string
QuoteString(t) == <<34>> \o EscapeString(t) \o <<34>>

\* a docker.AuthConfig at three tabs of indent; Auth is `json:"auth,omitempty"`
MarshalAuthConfig(a) ==
    IF Len(a.Auth) = 0 THEN <<123, 125>>                      \* {}
    ELSE <<123, 10, 9, 9, 9>>                                 \* {\n\t\t\t
            \o QuoteString(<<97, 117, 116, 104>>)             \* "auth"
            \o <<58, 32>> \o QuoteString(a.Auth)              \* : "..."
            \o <<10, 9, 9, 125>>                              \* \n\t\t}

\* the members of the auths object, keys in order, from index i
RECURSIVE MarshalAuths(_, _, _)
MarshalAuths(m, keys, i) ==
    IF i > Len(keys) THEN <<>>
    ELSE <<10, 9, 9>> \o QuoteString(keys[i]) \o <<58, 32>>
            \o MarshalAuthConfig(m[keys[i]])
            \o (IF i < Len(keys) THEN <<44>> ELSE <<10, 9>>)
            \o MarshalAuths(m, keys, i + 1)

\* what encoder.Encode(fileContents) hands to the file in one Write, with
\* encoder.SetIndent("", "\t"): the indented document and a line feed
EncodedBytes(fileContents) ==
    <<123, 10, 9>> \o QuoteString(<<97, 117, 116, 104, 115>>) \o <<58, 32>>
        \o (IF fileContents.nil THEN <<110, 117, 108, 108>>          \* null
            ELSE <<123>>
                   \o MarshalAuths(fileContents.Auths,
                                   SortedKeys(DOMAIN fileContents.Auths), 1)
                   \o <<125>>)
        \o <<10, 125, 10>>

\* a write of bytes b at offset off of a file that holds data: the file grows
\* where the write goes past its end (a gap is zero bytes), and what stands
\* behind the written bytes stays
WriteAt(data, off, b) ==
    [i \in 1..(IF off + Len(b) > Len(data) THEN off + Len(b) ELSE Len(data)) |->
        IF i > off /\ i <= off + Len(b) THEN b[i - off]
        ELSE IF i <= Len(data) THEN data[i]
        ELSE 0]

\* readGlobalAuthFile that takes a file that is no JSON for a missing one
readGlobalAuthFileTolerant(file) ==
    IF file.state \in {"absent", "invalid"}
    THEN [err |-> "", contents |-> [nil |-> FALSE, Auths |-> EmptyMap]]
    ELSE IF file.state = "unreadable"
    THEN [err |-> "unable to read global auth file", contents |-> ZeroConfigJSON]
    ELSE [err |-> "", contents |-> file.contents]

\* readGlobalAuthFile against the global auth file [state, contents]: state
\* is "absent", "unreadable" (any other read error), "invalid" (not JSON) or
\* "valid".  [err, contents]
readGlobalAuthFile(file) ==
    IF file.state = "absent"
    THEN [err |-> "", contents |-> [nil |-> FALSE, Auths |-> EmptyMap]]
    ELSE IF file.state = "unreadable"
    THEN [err |-> "unable to read global auth file", contents |-> ZeroConfigJSON]
    ELSE IF file.state = "invalid"
    THEN [err |-> "unmarshaling JSON", contents |-> ZeroConfigJSON]
    ELSE [err |-> "", contents |-> file.contents]

\* the response of Run: cpv1.CredentialProviderResponse with its TypeMeta and
\* cache key type, and no cache duration and no auth map
Response ==
    [Kind         |-> "CredentialProviderResponse",
     APIVersion   |-> "credentialprovider.kubelet.k8s.io/v1",
     CacheKeyType |-> "Registry",
     Auth         |-> EmptyMap]

-----------------------------------------------------------------------------
(* The inputs the model runs on.                                           *)

\* registry names, mirrors and images
RegQ == <<113>>                             \* "q"
RegR == <<114>>                             \* "r"
RegK == <<107>>                             \* "k"
RegQF == <<113, 47, 102>>                   \* "q/f"
MirrorMQ == <<109, 46, 113>>                \* "m.q"
ImageQ == <<113, 47, 105>>                  \* "q/i"
ImageR == <<114, 47, 105>>                  \* "r/i"
ImageX == <<120, 47, 105>>                  \* "x/i"

\* auth strings
AuthUP == EncodeToString(<<117, 58, 112>>)        \* base64("u:p")
AuthVW == EncodeToString(<<118, 58, 119>>)        \* base64("v:w")
AuthGH == EncodeToString(<<103, 58, 104>>)        \* base64("g:h")
AuthNoColon == EncodeToString(<<117>>)            \* base64("u")
AuthNUL == EncodeToString(<<117, 58, 112, 0>>)    \* base64("u:p\x00")
AuthBad == <<33, 33, 33, 33>>                     \* "!!!!", not base64

\* a docker.ConfigJSON with the given Auths
Config(a) == [nil |-> FALSE, Auths |-> a]

\* a secret of the docker-config type whose payload parses to Auths a
DockerSecret(name, a) ==
    [Name |-> name,
     Type |-> SecretTypeDockerConfigJson,
     Data |-> (DockerConfigJsonKey :> [json |-> TRUE, cfg |-> Config(a)])]

SecretPool ==
    { DockerSecret("s1", (HTTPS \o RegQ) :> [Auth |-> AuthUP]),
      DockerSecret("s2", (RegQ :> [Auth |-> AuthVW]) @@ (RegR :> [Auth |-> AuthNoColon])),
      DockerSecret("s3", ((HTTP \o RegQ) :> [Auth |-> AuthNUL])
                           @@ ((HTTPS \o RegQ) :> [Auth |-> AuthVW])),
      DockerSecret("s4", (RegR :> [Auth |-> AuthBad]) @@ (RegQF :> [Auth |-> AuthUP])),
      [Name |-> "s5", Type |-> SecretTypeOpaque,
       Data |-> (DockerConfigJsonKey :>
                    [json |-> TRUE, cfg |-> Config(RegQ :> [Auth |-> AuthUP])])],
      [Name |-> "s6", Type |-> SecretTypeDockerConfigJson,
       Data |-> ("config.json" :>
                    [json |-> TRUE, cfg |-> Config(RegQ :> [Auth |-> AuthUP])])],
      [Name |-> "s7", Type |-> SecretTypeDockerConfigJson,
       Data |-> (DockerConfigJsonKey :> [json |-> FALSE, cfg |-> ZeroConfigJSON])] }

\* the secret lists of at most MaxSecrets items; the secrets of a namespace
\* have names of their own, so no secret is twice in a list
SecretLists ==
    {[nil |-> FALSE, Items |-> l] :
        l \in {q \in UNION {[1..n -> SecretPool] : n \in 0..MaxSecrets} :
                  \A i, j \in DOMAIN q : q[i] = q[j] => i = j}}

MirrorPool == {RegQF, MirrorMQ, RegR}

\* the mirror lists of at most MaxMirrors mirrors, each mirror named once
MirrorLists ==
    {q \in UNION {[1..n -> MirrorPool] : n \in 0..MaxMirrors} :
        \A i, j \in DOMAIN q : q[i] = q[j] => i = j}

Images == {ImageQ, ImageR, ImageX}

\* what a global auth file may hold
GlobalConfigs ==
    { ZeroConfigJSON,
      Config(EmptyMap),
      Config((RegK :> [Auth |-> AuthGH]) @@ (RegR :> [Auth |-> AuthGH])),
      Config(RegQ :> [Auth |-> AuthGH]),
      Config(((HTTPS \o RegQ) :> [Auth |-> AuthGH]) @@ (RegK :> [Auth |-> AuthGH])) }

\* JSON values
JString(t) == [kind |-> "string", str |-> t, fields |-> EmptyMap]
JNumber == [kind |-> "number", str |-> <<>>, fields |-> EmptyMap]
JBool == [kind |-> "bool", str |-> <<>>, fields |-> EmptyMap]
JMap(f) == [kind |-> "map", str |-> <<>>, fields |-> f]

\* namespace names over 'n' and '-', the empty name among them
Namespaces == UNION {[1..n -> {110, 45}] : n \in 0..MaxNsLen}

\* what a token may carry in the namespace field of its kubernetes.io claim
NamespaceValues == {JNumber, JBool, JMap(EmptyMap)} \cup {JString(n) : n \in Namespaces}

\* the members of a kubernetes.io claim that is a map
K8sClaimMaps ==
    {EmptyMap, "pod" :> JString(<<112>>)}
        \cup {"namespace" :> v : v \in NamespaceValues}
        \cup {("namespace" :> v) @@ ("pod" :> JString(<<112>>)) : v \in NamespaceValues}

K8sClaims == {JString(<<110>>), JNumber} \cup {JMap(f) : f \in K8sClaimMaps}

ClaimSets ==
    {EmptyMap, "iss" :> JString(<<105>>)}
        \cup {k8sClaimKey :> c : c \in K8sClaims}
        \cup {(k8sClaimKey :> c) @@ ("iss" :> JString(<<105>>)) : c \in K8sClaims}

\* the forms of a token text the parser rejects: not three segments, a
\* segment that is not base64url of JSON, a header naming no known algorithm
MalformedForms == {"segments", "encoding", "alg"}

Tokens ==
    {[form |-> f, claims |-> EmptyMap] : f \in {"empty"} \cup MalformedForms}
        \cup {[form |-> "jwt", claims |-> c] : c \in ClaimSets}

\* a token whose kubernetes.io claim is the map with this namespace value
TokenOf(v) == [form |-> "jwt", claims |-> k8sClaimKey :> JMap("namespace" :> v)]

\* a nil *cpv1.CredentialProviderRequest
NilRequest ==
    [nil |-> TRUE, Image |-> <<>>,
     ServiceAccountToken |-> [form |-> "empty", claims |-> EmptyMap]]

Request(i, t) == [nil |-> FALSE, Image |-> i, ServiceAccountToken |-> t]

\* the requests ExtractNamespace is called with
ExtractRequests == {NilRequest} \cup {Request(ImageQ, t) : t \in Tokens}

\* the tokens of the requests Run reads
RunTokens ==
    { [form |-> "empty", claims |-> EmptyMap],
      [form |-> "segments", claims |-> EmptyMap],
      [form |-> "jwt", claims |-> EmptyMap],
      [form |-> "jwt", claims |-> k8sClaimKey :> JString(<<110>>)],
      [form |-> "jwt", claims |-> k8sClaimKey :> JMap(EmptyMap)],
      TokenOf(JNumber),
      TokenOf(JString(<<>>)),
      TokenOf(JString(<<110>>)) }

\* what Run finds on stdin: a text that is no JSON document, or the request
\* a JSON document decodes to
Stdins ==
    {[json |-> FALSE, request |-> NilRequest]}
        \cup {[json |-> TRUE, request |-> Request(i, t)] :
                 i \in {<<>>, ImageQ, ImageX}, t \in RunTokens}

\* what the registries configuration answers for an image: it does not
\* load, it has no entry for the image, or the entry's mirrors
Resolvers ==
    {[err |-> TRUE, found |-> FALSE, Mirrors |-> <<>>],
     [err |-> FALSE, found |-> FALSE, Mirrors |-> <<>>]}
        \cup {[err |-> FALSE, found |-> TRUE, Mirrors |-> m] : m \in MirrorLists}

\* the secret lists the API server of a Run answers with
RunSecretLists ==
    {l \in SecretLists : \A i \in DOMAIN l.Items : l.Items[i].Name \in {"s1", "s4", "s7"}}

NoSecrets == [nil |-> TRUE, Items |-> <<>>]

\* how the cluster answers RetrieveSecrets
Clusters ==
    {[clientErr |-> TRUE, listErr |-> "none", list |-> NoSecrets]}
        \cup {[clientErr |-> FALSE, listErr |-> e, list |-> NoSecrets] : e \in {"api", "timeout"}}
        \cup {[clientErr |-> FALSE, listErr |-> "none", list |-> l] : l \in RunSecretLists}

\* the states of the global auth file
GlobalFiles ==
    {[state |-> st, contents |-> ZeroConfigJSON] : st \in {"absent", "unreadable", "invalid"}}
        \cup {[state |-> "valid", contents |-> c] : c \in GlobalConfigs}

DirAbs == <<47, 97>>                        \* "/a"
DirRel == <<97>>                            \* "a"
NsN == <<110>>                              \* "n"

\* a file system without files, and one where a stale file of another mode
\* sits at each path a run may write
StaleFile == [data |-> "full", json |-> Config(RegK :> [Auth |-> AuthUP]), mode |-> "0644"]

EmptyFS == [dirs |-> EmptyMap, files |-> EmptyMap]

StaleFS ==
    [dirs  |-> DirAbs :> "0755",
     files |-> [p \in {[dir |-> DirAbs, namespace |-> n, sum |-> Sum256Hex(i)] :
                          n \in Namespaces \ {<<>>}, i \in Images} |-> StaleFile]]

-----------------------------------------------------------------------------
(* The state of one invocation.                                            *)

VARIABLES
    entry,               \* the function this run enters by
    pc,                  \* where the run stands
    registriesConf,      \* "missing", "present" or "inaccessible" (os.Stat)
    stdin,               \* what stands on stdin
    authDir,             \* the auth directory
    resolver,            \* what the registries configuration answered
    cluster,             \* how the cluster answered
    globalFile,          \* the global auth file as it was read
    fs0,                 \* the file system before the run
    fs,                  \* the file system
    stdout,              \* the documents written to stdout
    req,                 \* Run: req
    namespace,           \* Run and CreateAuthFile: namespace
    image,               \* CreateAuthFile: image
    mirrors,             \* Run and CreateAuthFile: mirrors
    secrets,             \* Run and CreateAuthFile: secrets
    globalAuthContents,  \* CreateAuthFile: globalAuthContents
    auths,               \* updateAuthContents: auths
    authfileContents,    \* CreateAuthFile: authfileContents
    file,                \* writeAuthFile: path, the file it opens
    path,                \* the path CreateAuthFile returned
    err,                 \* the error returned, "" for nil
    calls,               \* how often each outside call was made
    arg,                 \* the argument of a function called on its own
    ret,                 \* what that function returned
    globalAuthsMap,      \* the map globalAuthContents.Auths refers to, as it
                         \* stands: a Go map value is a reference
    writers,             \* the invocations that write the same auth file
    disk                 \* the bytes of the auth file they write

vars ==
    <<entry, pc, registriesConf, stdin, authDir, resolver, cluster, globalFile,
      fs0, fs, stdout, req, namespace, image, mirrors, secrets,
      globalAuthContents, auths, authfileContents, file, path, err, calls,
      arg, ret, globalAuthsMap, writers, disk>>

\* the parts of the state a step within CreateAuthFile leaves alone
runVars ==
    <<entry, registriesConf, stdin, authDir, resolver, cluster, fs0, stdout, req,
      arg, ret, writers, disk>>

NoCalls ==
    [stat |-> 0, stdin |-> 0, extract |-> 0, match |-> 0, client |-> 0,
     list |-> 0, create |-> 0, readGlobal |-> 0, update |-> 0, write |-> 0,
     mkdir |-> 0, open |-> 0, encode |-> 0, response |-> 0]

Called(what) == [calls EXCEPT ![what] = @ + 1]

\* no function is called on its own
NoArg == <<>>
NoRet == <<>>
NoCall == arg = NoArg /\ ret = NoRet

\* no invocations write the same file at the same time
NoWriters == <<>>
NoOverlap == writers = NoWriters /\ disk = <<>>

\* the values the locals hold before they are assigned
InitLocals ==
    /\ resolver = [err |-> FALSE, found |-> FALSE, Mirrors |-> <<>>]
    /\ cluster = [clientErr |-> FALSE, listErr |-> "none", list |-> NoSecrets]
    /\ globalFile = [state |-> "absent", contents |-> ZeroConfigJSON]
    /\ stdout = <<>>
    /\ req = NilRequest
    /\ namespace = <<>>
    /\ image = <<>>
    /\ mirrors = <<>>
    /\ secrets = NoSecrets
    /\ globalAuthContents = ZeroConfigJSON
    /\ auths = EmptyMap
    /\ authfileContents = ZeroConfigJSON
    /\ file = NoPath
    /\ path = NoPath
    /\ err = ""
    /\ calls = NoCalls
    /\ fs = fs0
    /\ globalAuthsMap = EmptyMap

\* an invocation of the binary: main calls app.Run
Init ==
    /\ entry = "Run"
    /\ pc = "Run"
    /\ registriesConf \in {"missing", "present", "inaccessible"}
    /\ stdin \in Stdins
    /\ authDir \in {DirAbs, DirRel}
    /\ fs0 \in {EmptyFS, StaleFS}
    /\ InitLocals
    /\ NoCall
    /\ NoOverlap

\* Run without the stop at a missing registries configuration
statOutcomeNoStop(conf) ==
    IF conf = "inaccessible" THEN "error" ELSE "continue"

\* Run without the return on an empty mirror list
noMirrorsNever(m) == FALSE

\* Run: what the os.Stat of the registries configuration path leads to:
\* return response(), return the error, or go on
statOutcome(conf) ==
    IF conf = "missing" THEN "response"
    ELSE IF conf = "inaccessible" THEN "error"
    ELSE "continue"

\* Run: len(mirrors) == 0
noMirrors(m) == Len(m) = 0

\* Run to its first return or to the decoding of stdin
RunStat ==
    /\ pc = "Run"
    /\ IF statOutcome(registriesConf) = "response"
       THEN /\ stdout' = Append(stdout, Response)
            /\ calls' = [calls EXCEPT !.stat = @ + 1, !.response = @ + 1]
            /\ err' = ""
            /\ pc' = "done"
       ELSE IF statOutcome(registriesConf) = "error"
       THEN /\ err' = "unable to access registries conf path"
            /\ calls' = Called("stat")
            /\ pc' = "done"
            /\ UNCHANGED stdout
       ELSE /\ pc' = "decode"
            /\ calls' = Called("stat")
            /\ UNCHANGED <<stdout, err>>
    /\ UNCHANGED <<arg, ret, globalAuthsMap, writers, disk, entry, registriesConf, stdin, authDir, resolver, cluster,
                   globalFile, fs0, fs, req, namespace, image, mirrors, secrets,
                   globalAuthContents, auths, authfileContents, file, path>>

\* Run: decoder.Decode(req)
RunDecode ==
    /\ pc = "decode"
    /\ calls' = Called("stdin")
    /\ IF stdin.json
       THEN /\ req' = stdin.request
            /\ pc' = "ExtractNamespace"
            /\ UNCHANGED err
       ELSE /\ err' = "unable to parse credential provider request from stdin"
            /\ pc' = "done"
            /\ UNCHANGED req
    /\ UNCHANGED <<arg, ret, globalAuthsMap, writers, disk, entry, registriesConf, stdin, authDir, resolver, cluster,
                   globalFile, fs0, fs, stdout, namespace, image, mirrors, secrets,
                   globalAuthContents, auths, authfileContents, file, path>>

\* k8s.ExtractNamespace(req), and what Run does with its answer
ExtractNamespaceStep ==
    /\ pc = "ExtractNamespace"
    /\ calls' = Called("extract")
    /\ LET r == ExtractNamespace(req)
       IN  IF r.err # ""
           THEN /\ err' = r.err
                /\ pc' = "done"
                /\ UNCHANGED namespace
           ELSE /\ namespace' = r.namespace
                /\ pc' = IF entry = "Run" THEN "Match" ELSE "done"
                /\ UNCHANGED err
    /\ UNCHANGED <<arg, ret, globalAuthsMap, writers, disk, entry, registriesConf, stdin, authDir, resolver, cluster,
                   globalFile, fs0, fs, stdout, req, image, mirrors, secrets,
                   globalAuthContents, auths, authfileContents, file, path>>

\* Run: mirrors.Match(req, registriesConfPath) and the return on no mirrors
RunMatch ==
    /\ pc = "Match"
    /\ \E rs \in IF Len(req.Image) = 0 THEN {resolver} ELSE Resolvers :
        LET m == Match(req, rs)
        IN  /\ resolver' = rs
            /\ IF m.err # ""
               THEN /\ err' = m.err
                    /\ pc' = "done"
                    /\ calls' = Called("match")
                    /\ UNCHANGED <<mirrors, stdout>>
               ELSE IF noMirrors(m.mirrors)
               THEN /\ stdout' = Append(stdout, Response)
                    /\ calls' = [calls EXCEPT !.match = @ + 1, !.response = @ + 1]
                    /\ mirrors' = m.mirrors
                    /\ err' = ""
                    /\ pc' = "done"
               ELSE /\ mirrors' = m.mirrors
                    /\ pc' = "RetrieveSecrets"
                    /\ calls' = Called("match")
                    /\ UNCHANGED <<stdout, err>>
    /\ UNCHANGED <<arg, ret, globalAuthsMap, writers, disk, entry, registriesConf, stdin, authDir, cluster,
                   globalFile, fs0, fs, req, namespace, image, secrets,
                   globalAuthContents, auths, authfileContents, file, path>>

\* Run: k8s.RetrieveSecrets(ctx, clientFunc, req.ServiceAccountToken, namespace)
RunRetrieveSecrets ==
    /\ pc = "RetrieveSecrets"
    /\ \E c \in Clusters :
        LET r == RetrieveSecrets(c)
        IN  /\ cluster' = c
            /\ calls' = [calls EXCEPT !.client = @ + 1,
                                      !.list = @ + (IF r.listed THEN 1 ELSE 0)]
            /\ IF r.err # ""
               THEN /\ err' = r.err
                    /\ pc' = "done"
                    /\ UNCHANGED <<secrets, image>>
               ELSE /\ secrets' = r.secrets
                    /\ image' = req.Image
                    /\ pc' = "CreateAuthFile"
                    /\ UNCHANGED err
    /\ UNCHANGED <<arg, ret, globalAuthsMap, writers, disk, entry, registriesConf, stdin, authDir, resolver,
                   globalFile, fs0, fs, stdout, req, namespace, mirrors,
                   globalAuthContents, auths, authfileContents, file, path>>

\* auth.CreateAuthFile up to its call of updateAuthContents
CreateAuthFile ==
    /\ pc = "CreateAuthFile"
    /\ IF Len(namespace) = 0
       THEN /\ err' = "errNamespaceEmpty"
            /\ pc' = "done"
            /\ calls' = Called("create")
            /\ UNCHANGED <<globalFile, globalAuthContents, globalAuthsMap>>
       ELSE IF secrets.nil
       THEN /\ err' = "errSecretsNil"
            /\ pc' = "done"
            /\ calls' = Called("create")
            /\ UNCHANGED <<globalFile, globalAuthContents, globalAuthsMap>>
       ELSE \E g \in GlobalFiles :
                LET r == readGlobalAuthFile(g)
                IN  /\ globalFile' = g
                    /\ calls' = [calls EXCEPT !.create = @ + 1, !.readGlobal = @ + 1]
                    /\ IF r.err # ""
                       THEN /\ err' = r.err
                            /\ pc' = "done"
                            /\ UNCHANGED <<globalAuthContents, globalAuthsMap>>
                       ELSE /\ globalAuthContents' = r.contents
                            /\ globalAuthsMap' = r.contents.Auths
                            /\ pc' = "updateAuthContents"
                            /\ UNCHANGED err
    /\ UNCHANGED <<runVars, fs, namespace, image, mirrors, secrets, auths,
                   authfileContents, file, path>>

\* updateAuthContents(secrets, globalAuthContents, image, mirrors)
UpdateAuthContents ==
    /\ pc = "updateAuthContents"
    /\ \E orders \in IterationOrders(secrets.Items) :
        /\ auths' = collectAuths(secrets, orders, image, mirrors)
        /\ authfileContents' = mergeAuths(globalAuthContents, auths')
        /\ globalAuthsMap' = sharedAuths(globalAuthContents, authfileContents')
    /\ calls' = Called("update")
    /\ pc' = IF entry = "updateAuthContents" THEN "done" ELSE "writeAuthFile"
    /\ UNCHANGED <<runVars, globalFile, fs, namespace, image, mirrors, secrets,
                   globalAuthContents, file, path, err>>

\* the path built with namespace and image in each other's place
authFilePathSwapped(dir, imageRef, ns) == FilePath(dir, imageRef, ns)

\* the path built as dir/<namespace>-<digest>.json without a check of its
\* parts
authFilePathUnchecked(dir, imageRef, ns) ==
    [err |-> "",
     path |-> [dir |-> dir, namespace |-> ns, sum |-> Sum256Hex(imageRef)]]

\* a path that takes in how many writes went before, a new one each time
authFilePathFresh(dir, imageRef, ns) ==
    [err  |-> FilePath(dir, ns, imageRef).err,
     path |-> IF FilePath(dir, ns, imageRef).err # "" THEN NoPath
              ELSE [dir |-> dir, namespace |-> ns,
                    sum |-> Sum256Hex(imageRef \o <<calls.write>>)]]

\* writeAuthFile(dir, image, namespace, ...): auth.FilePath(dir, namespace, image)
authFilePath(dir, imageRef, ns) == FilePath(dir, ns, imageRef)

\* a map without entries reported with the error of a global auth file that
\* cannot be read
errNoAuthsAsReadFailure == "unable to read global auth file"

\* errNoAuths
errNoAuths == "errNoAuths"

\* writeAuthFile without its turning down of a map without entries
noAuthsNever(fileContents) == FALSE

\* writeAuthFile: len(fileContents.Auths) == 0
noAuths(fileContents) == Cardinality(DOMAIN fileContents.Auths) = 0

\* writeAuthFile up to its call of os.OpenFile
WriteAuthFile ==
    /\ pc = "writeAuthFile"
    /\ IF noAuths(authfileContents)
       THEN /\ err' = errNoAuths
            /\ pc' = "done"
            /\ calls' = Called("write")
            /\ UNCHANGED <<fs, file>>
       ELSE \E made \in BOOLEAN :
                LET p == authFilePath(authDir, image, namespace)
                IN  IF ~made \/ Len(authDir) = 0
                    THEN /\ err' = "ensure auth dir"
                         /\ pc' = "done"
                         /\ calls' = [calls EXCEPT !.write = @ + 1, !.mkdir = @ + 1]
                         /\ UNCHANGED <<fs, file>>
                    ELSE /\ fs' = MkdirAll(fs, authDir)
                         /\ calls' = [calls EXCEPT !.write = @ + 1, !.mkdir = @ + 1]
                         /\ IF p.err # ""
                            THEN /\ err' = "get auth path"
                                 /\ pc' = "done"
                                 /\ UNCHANGED file
                            ELSE /\ file' = p.path
                                 /\ pc' = "OpenFile"
                                 /\ UNCHANGED err
    /\ UNCHANGED <<runVars, globalFile, namespace, image, mirrors, secrets,
                   globalAuthContents, globalAuthsMap, auths, authfileContents,
                   path>>

\* writeAuthFile: os.OpenFile(path, O_WRONLY|O_CREATE|O_TRUNC, 0o600)
OpenAuthFile ==
    /\ pc = "OpenFile"
    /\ calls' = Called("open")
    /\ \E opened \in BOOLEAN :
        IF opened
        THEN /\ fs' = OpenFile(fs, file)
             /\ pc' = "Encode"
             /\ UNCHANGED err
        ELSE /\ err' = "open auth file"
             /\ pc' = "done"
             /\ UNCHANGED fs
    /\ UNCHANGED <<runVars, globalFile, namespace, image, mirrors, secrets,
                   globalAuthContents, globalAuthsMap, auths, authfileContents,
                   file, path>>

\* writeAuthFile: encoder.Encode(fileContents), the deferred Close, and the
\* return of the path through CreateAuthFile
EncodeAuthFile ==
    /\ pc = "Encode"
    /\ calls' = Called("encode")
    /\ \E written \in BOOLEAN :
        /\ fs' = Encode(fs, file, authfileContents, written)
        /\ IF written
           THEN /\ path' = file
                /\ pc' = IF entry = "Run" THEN "response" ELSE "done"
                /\ UNCHANGED err
           ELSE /\ err' = "encode auth file"
                /\ pc' = "done"
                /\ UNCHANGED path
    /\ UNCHANGED <<runVars, globalFile, namespace, image, mirrors, secrets,
                   globalAuthContents, globalAuthsMap, auths, authfileContents,
                   file>>

\* the last return of Run without its call of response()
RunResponseSilent ==
    /\ pc = "response"
    /\ calls' = calls
    /\ err' = ""
    /\ pc' = "done"
    /\ UNCHANGED <<arg, ret, globalAuthsMap, writers, disk, entry, registriesConf, stdin, authDir, resolver, cluster,
                   globalFile, fs0, fs, stdout, req, namespace, image, mirrors,
                   secrets, globalAuthContents, auths, authfileContents, file, path>>

\* Run: return response() after the auth file is written
RunResponse ==
    /\ pc = "response"
    /\ stdout' = Append(stdout, Response)
    /\ calls' = Called("response")
    /\ err' = ""
    /\ pc' = "done"
    /\ UNCHANGED <<arg, ret, globalAuthsMap, writers, disk, entry, registriesConf, stdin, authDir, resolver, cluster,
                   globalFile, fs0, fs, req, namespace, image, mirrors, secrets,
                   globalAuthContents, auths, authfileContents, file, path>>

Next ==
    \/ RunStat
    \/ RunDecode
    \/ ExtractNamespaceStep
    \/ RunMatch
    \/ RunRetrieveSecrets
    \/ CreateAuthFile
    \/ UpdateAuthContents
    \/ WriteAuthFile
    \/ OpenAuthFile
    \/ EncodeAuthFile
    \/ RunResponse

\* one invocation of the credential provider
Spec == Init /\ [][Next]_vars

-----------------------------------------------------------------------------
(* The functions of the packages, called on their own.                     *)

\* the environment of Run, for a call that does not go through Run
NoRun ==
    /\ registriesConf = "present"
    /\ stdin = [json |-> FALSE, request |-> NilRequest]

\* a call of k8s.ExtractNamespace
InitExtract ==
    /\ entry = "ExtractNamespace"
    /\ pc = "ExtractNamespace"
    /\ NoRun
    /\ NoCall
    /\ authDir = DirAbs
    /\ fs0 = EmptyFS
    /\ InitLocals!1 /\ InitLocals!2 /\ InitLocals!3 /\ InitLocals!4
    /\ req \in ExtractRequests
    /\ namespace = <<>> /\ image = <<>> /\ mirrors = <<>> /\ secrets = NoSecrets
    /\ globalAuthContents = ZeroConfigJSON /\ auths = EmptyMap
    /\ authfileContents = ZeroConfigJSON /\ file = NoPath /\ path = NoPath
    /\ err = "" /\ calls = NoCalls /\ fs = fs0
    /\ globalAuthsMap = globalAuthContents.Auths
    /\ NoOverlap

NextExtract == ExtractNamespaceStep

SpecExtract == InitExtract /\ [][NextExtract]_vars

\* the bytes of the texts behind the auth strings: 'u', 'p', ':' and NUL
AuthBytes == {117, 112, Colon, NUL}

\* the texts of at most MaxAuthLen bytes
RawTexts == UNION {[1..n -> AuthBytes] : n \in 0..MaxAuthLen}

\* auth strings that are not base64: "!!!!", "dQ" and "d" (no full quantum),
\* "dTpw=" (a pad after a full quantum), "dT=w" (a pad inside a quantum)
NotBase64 ==
    {AuthBad, <<100, 81>>, <<100>>, <<100, 84, 112, 119, 61>>, <<100, 84, 61, 119>>}

\* what decodeDockerAuth is called with: the base64 of a text, the base64 of
\* "u:p" with a line feed after it, or a string that is not base64
DecodeArgs ==
    {[base64 |-> TRUE, raw |-> b, Auth |-> EncodeToString(b)] : b \in RawTexts}
        \cup {[base64 |-> TRUE, raw |-> <<117, 58, 112>>, Auth |-> AuthUP \o <<10>>]}
        \cup {[base64 |-> FALSE, raw |-> <<>>, Auth |-> a] : a \in NotBase64}

\* a call of decodeDockerAuth
InitDecode ==
    /\ entry = "decodeDockerAuth"
    /\ pc = "decodeDockerAuth"
    /\ NoRun
    /\ arg \in DecodeArgs
    /\ ret = NoRet
    /\ authDir = DirAbs
    /\ fs0 = EmptyFS
    /\ InitLocals
    /\ NoOverlap

\* decodeDockerAuth(conf)
DecodeDockerAuthCall ==
    /\ pc = "decodeDockerAuth"
    /\ ret' = decodeDockerAuth([Auth |-> arg.Auth])
    /\ pc' = "done"
    /\ UNCHANGED <<arg, globalAuthsMap, writers, disk, entry, registriesConf, stdin, authDir, resolver, cluster,
                   globalFile, fs0, fs, stdout, req, namespace, image, mirrors,
                   secrets, globalAuthContents, auths, authfileContents, file,
                   path, err, calls>>

NextDecode == DecodeDockerAuthCall

SpecDecode == InitDecode /\ [][NextDecode]_vars

\* what may stand before the host of a registry key: "http://", "https://",
\* and "HTTPS://", which is no prefix normalizeSecretRegistry knows
Schemes == {HTTP, HTTPS, <<72, 84, 84, 80, 83, 58, 47, 47>>}

\* the hosts of the registry keys: "q", "Q", "q/f", "q:5", "http" and ""
Hosts == {RegQ, <<81>>, RegQF, <<113, 58, 53>>, <<104, 116, 116, 112>>, <<>>}

\* the texts of n schemes in a row
RECURSIVE SchemeRuns(_)
SchemeRuns(n) ==
    IF n = 0 THEN {<<>>}
    ELSE {sc \o rest : sc \in Schemes, rest \in SchemeRuns(n - 1)}

\* the registry keys normalizeSecretRegistry is called with
RegistryKeys ==
    {run \o host : run \in UNION {SchemeRuns(n) : n \in 0..MaxSchemes},
                   host \in Hosts}

\* a call of normalizeSecretRegistry, and a second call with its result
InitNormalize ==
    /\ entry = "normalizeSecretRegistry"
    /\ pc = "normalizeSecretRegistry"
    /\ NoRun
    /\ arg \in RegistryKeys
    /\ ret = NoRet
    /\ authDir = DirAbs
    /\ fs0 = EmptyFS
    /\ InitLocals
    /\ NoOverlap

\* normalizeSecretRegistry(reg): ret holds the results of the calls so far
NormalizeCall ==
    /\ pc = "normalizeSecretRegistry"
    /\ ret' = Append(ret, normalizeSecretRegistry(
                              IF Len(ret) = 0 THEN arg ELSE ret[Len(ret)]))
    /\ pc' = IF Len(ret) = 0 THEN "normalizeSecretRegistry" ELSE "done"
    /\ UNCHANGED <<arg, globalAuthsMap, writers, disk, entry, registriesConf, stdin, authDir, resolver, cluster,
                   globalFile, fs0, fs, stdout, req, namespace, image, mirrors,
                   secrets, globalAuthContents, auths, authfileContents, file,
                   path, err, calls>>

NextNormalize == NormalizeCall

SpecNormalize == InitNormalize /\ [][NextNormalize]_vars

\* a call of updateAuthContents
InitMerge ==
    /\ entry = "updateAuthContents"
    /\ pc = "updateAuthContents"
    /\ NoRun
    /\ NoCall
    /\ authDir = DirAbs
    /\ fs0 = EmptyFS
    /\ InitLocals!1 /\ InitLocals!2 /\ InitLocals!3 /\ InitLocals!4
    /\ req = NilRequest /\ namespace = NsN
    /\ image \in Images
    /\ mirrors \in MirrorLists
    /\ secrets \in SecretLists
    /\ globalAuthContents \in GlobalConfigs
    /\ auths = EmptyMap
    /\ authfileContents = ZeroConfigJSON /\ file = NoPath /\ path = NoPath
    /\ err = "" /\ calls = NoCalls /\ fs = fs0
    /\ globalAuthsMap = globalAuthContents.Auths
    /\ NoOverlap

NextMerge == UpdateAuthContents

SpecMerge == InitMerge /\ [][NextMerge]_vars

\* the auth directories, namespaces, images and mirror lists of a direct call
PersistDirs == {DirAbs, DirRel, <<>>}
PersistNamespaces == {<<>>, NsN, <<45, 110>>}
PersistImages == {<<>>, ImageQ, ImageX}
PersistMirrors == {<<>>, <<RegQF>>, <<MirrorMQ, RegR>>}

\* a call of auth.CreateAuthFile, or of writeAuthFile
InitPersist ==
    /\ NoRun
    /\ NoCall
    /\ InitLocals!1 /\ InitLocals!2 /\ InitLocals!3 /\ InitLocals!4
    /\ req = NilRequest
    /\ authDir \in PersistDirs
    /\ namespace \in PersistNamespaces
    /\ image \in PersistImages
    /\ fs0 \in {EmptyFS, StaleFS}
    /\ globalAuthContents = ZeroConfigJSON
    /\ auths = EmptyMap
    /\ \/ /\ entry = "CreateAuthFile"
          /\ pc = "CreateAuthFile"
          /\ secrets \in {NoSecrets} \cup RunSecretLists
          /\ mirrors \in PersistMirrors
          /\ authfileContents = ZeroConfigJSON
       \/ /\ entry = "writeAuthFile"
          /\ pc = "writeAuthFile"
          /\ secrets = NoSecrets
          /\ mirrors = <<>>
          /\ authfileContents \in GlobalConfigs
    /\ file = NoPath /\ path = NoPath
    /\ err = "" /\ calls = NoCalls /\ fs = fs0
    /\ globalAuthsMap = globalAuthContents.Auths
    /\ NoOverlap

NextPersist ==
    \/ CreateAuthFile
    \/ UpdateAuthContents
    \/ WriteAuthFile
    \/ OpenAuthFile
    \/ EncodeAuthFile

SpecPersist == InitPersist /\ [][NextPersist]_vars

\* a call of updateAuthContents with every secret list and a few mirror lists
InitHarvest ==
    /\ entry = "updateAuthContents"
    /\ pc = "updateAuthContents"
    /\ NoRun
    /\ NoCall
    /\ authDir = DirAbs
    /\ fs0 = EmptyFS
    /\ InitLocals!1 /\ InitLocals!2 /\ InitLocals!3 /\ InitLocals!4
    /\ req = NilRequest /\ namespace = NsN
    /\ image \in Images
    /\ mirrors \in PersistMirrors
    /\ secrets \in SecretLists
    /\ globalAuthContents \in GlobalConfigs
    /\ auths = EmptyMap
    /\ authfileContents = ZeroConfigJSON /\ file = NoPath /\ path = NoPath
    /\ err = "" /\ calls = NoCalls /\ fs = fs0
    /\ globalAuthsMap = globalAuthContents.Auths
    /\ NoOverlap

NextHarvest == UpdateAuthContents

SpecHarvest == InitHarvest /\ [][NextHarvest]_vars

\* two calls of writeAuthFile, one after the other, with the same arguments
InitTwice ==
    /\ entry = "writeAuthFileTwice"
    /\ pc = "writeAuthFile"
    /\ NoRun
    /\ arg = [call |-> 1]
    /\ ret = NoRet
    /\ InitLocals!1 /\ InitLocals!2 /\ InitLocals!3 /\ InitLocals!4
    /\ req = NilRequest
    /\ authDir \in PersistDirs
    /\ namespace \in PersistNamespaces
    /\ image \in PersistImages
    /\ fs0 \in {EmptyFS, StaleFS}
    /\ secrets = NoSecrets /\ mirrors = <<>>
    /\ globalAuthContents = ZeroConfigJSON /\ auths = EmptyMap
    /\ authfileContents \in GlobalConfigs
    /\ file = NoPath /\ path = NoPath
    /\ err = "" /\ calls = NoCalls /\ fs = fs0
    /\ globalAuthsMap = globalAuthContents.Auths
    /\ NoOverlap

\* the first call has returned: its result is kept and the second call
\* begins, with the arguments of the first
SecondCall ==
    /\ entry = "writeAuthFileTwice"
    /\ pc = "done"
    /\ arg.call = 1
    /\ arg' = [call |-> 2]
    /\ ret' = [path |-> path, err |-> err, fs |-> fs]
    /\ pc' = "writeAuthFile"
    /\ err' = ""
    /\ path' = NoPath
    /\ file' = NoPath
    /\ UNCHANGED <<globalAuthsMap, writers, disk, entry, registriesConf, stdin,
                   authDir, resolver, cluster, globalFile, fs0, fs, stdout, req,
                   namespace, image, mirrors, secrets, globalAuthContents, auths,
                   authfileContents, calls>>

NextTwice ==
    \/ WriteAuthFile
    \/ OpenAuthFile
    \/ EncodeAuthFile
    \/ SecondCall

SpecTwice == InitTwice /\ [][NextTwice]_vars

\* mirrors of which two begin with "q": "q/f", "q/g" and "r"
TwinMirrorPool == {RegQF, <<113, 47, 103>>, RegR}

\* the lists of at most MaxMirrors of them, each mirror named once
TwinMirrorLists ==
    {q \in UNION {[1..n -> TwinMirrorPool] : n \in 0..MaxMirrors} :
        \A i, j \in DOMAIN q : q[i] = q[j] => i = j}

\* a call of updateAuthContents and of its earlier version with the same
\* arguments
InitBoth ==
    /\ entry = "updateAuthContents, both versions"
    /\ pc = "updateAuthContents"
    /\ NoRun
    /\ NoCall
    /\ authDir = DirAbs
    /\ fs0 = EmptyFS
    /\ InitLocals!1 /\ InitLocals!2 /\ InitLocals!3 /\ InitLocals!4
    /\ req = NilRequest /\ namespace = NsN
    /\ image \in Images
    /\ mirrors \in TwinMirrorLists
    /\ secrets \in SecretLists
    /\ globalAuthContents \in GlobalConfigs
    /\ auths = EmptyMap
    /\ authfileContents = ZeroConfigJSON /\ file = NoPath /\ path = NoPath
    /\ err = "" /\ calls = NoCalls /\ fs = fs0
    /\ globalAuthsMap = globalAuthContents.Auths
    /\ NoOverlap

\* both versions run, and both range over the secrets' maps in the same
\* order: authfileContents is what updateAuthContents returns, ret what the
\* earlier version returns
UpdateAuthContentsBoth ==
    /\ pc = "updateAuthContents"
    /\ \E orders \in IterationOrders(secrets.Items) :
        /\ auths' = collectAuths(secrets, orders, image, mirrors)
        /\ authfileContents' = mergeAuths(globalAuthContents, auths')
        /\ globalAuthsMap' = sharedAuths(globalAuthContents, authfileContents')
        /\ ret' = updateAuthContentsEarlier(secrets, orders, globalAuthContents,
                                            image, mirrors)
    /\ calls' = Called("update")
    /\ pc' = "done"
    /\ UNCHANGED <<arg, writers, disk, entry, registriesConf, stdin, authDir,
                   resolver, cluster, globalFile, fs0, fs, stdout, req,
                   namespace, image, mirrors, secrets, globalAuthContents,
                   file, path, err>>

NextBoth == UpdateAuthContentsBoth

SpecBoth == InitBoth /\ [][NextBoth]_vars

\* the maps two invocations for the same namespace and image may have merged
OverlapConfigs == {c \in GlobalConfigs : DOMAIN c.Auths # {}}

\* two invocations that have built the same path and are about to open it;
\* each holds its merged map, and the offset of its own open file
InitOverlap ==
    /\ entry = "writeAuthFileOverlap"
    /\ pc = "overlap"
    /\ NoRun
    /\ NoCall
    /\ InitLocals!1 /\ InitLocals!2 /\ InitLocals!3 /\ InitLocals!4
    /\ req = NilRequest
    /\ authDir = DirAbs /\ namespace = NsN /\ image = ImageQ
    /\ fs0 = EmptyFS
    /\ secrets = NoSecrets /\ mirrors = <<>>
    /\ globalAuthContents = ZeroConfigJSON /\ auths = EmptyMap
    /\ globalAuthsMap = EmptyMap
    /\ authfileContents = ZeroConfigJSON
    /\ file = NoPath /\ path = NoPath
    /\ err = "" /\ calls = NoCalls /\ fs = fs0
    /\ writers \in [1..2 -> {[pc |-> "OpenFile", off |-> 0, err |-> "",
                              fileContents |-> c] : c \in OverlapConfigs}]
    /\ disk \in {<<>>, EncodedBytes(StaleFile.json)}

\* writeAuthFile of invocation w: os.OpenFile(path, O_WRONLY|O_CREATE|O_TRUNC,
\* 0o600).  The file is cut to no bytes; w's file starts at offset 0.
OverlapOpen(w) ==
    /\ writers[w].pc = "OpenFile"
    /\ \E opened \in BOOLEAN :
        IF opened
        THEN /\ disk' = <<>>
             /\ writers' = [writers EXCEPT ![w].pc = "Encode", ![w].off = 0]
        ELSE /\ writers' = [writers EXCEPT ![w].pc = "done",
                                           ![w].err = "open auth file"]
             /\ UNCHANGED disk
    /\ UNCHANGED <<arg, ret, globalAuthsMap, entry, pc, registriesConf, stdin,
                   authDir, resolver, cluster, globalFile, fs0, fs, stdout, req,
                   namespace, image, mirrors, secrets, globalAuthContents,
                   auths, authfileContents, file, path, err, calls>>

\* how many bytes of b a Write may have written: all of them, or, where it
\* fails, fewer (none, the first one, or all but the last one are taken here)
Written(b) == {0, 1, Len(b) - 1, Len(b)}

\* writeAuthFile of invocation w: encoder.Encode(fileContents) and the return.
\* The document goes to the file at w's offset.
OverlapEncode(w) ==
    /\ writers[w].pc = "Encode"
    /\ LET b == EncodedBytes(writers[w].fileContents)
       IN  \E n \in Written(b) :
             /\ disk' = WriteAt(disk, writers[w].off, SubSeq(b, 1, n))
             /\ writers' = [writers EXCEPT
                               ![w].pc = "done",
                               ![w].off = @ + n,
                               ![w].err = IF n = Len(b) THEN ""
                                          ELSE "encode auth file"]
    /\ UNCHANGED <<arg, ret, globalAuthsMap, entry, pc, registriesConf, stdin,
                   authDir, resolver, cluster, globalFile, fs0, fs, stdout, req,
                   namespace, image, mirrors, secrets, globalAuthContents,
                   auths, authfileContents, file, path, err, calls>>

NextOverlap ==
    \E w \in DOMAIN writers :
        \/ OverlapOpen(w)
        \/ OverlapEncode(w)

SpecOverlap == InitOverlap /\ [][NextOverlap]_vars

-----------------------------------------------------------------------------
(* The merge (updateAuthContents).                                         *)

\* the entries the harvest decodes from the secret list: for each secret
\* that is valid and each of its registry keys whose auth string decodes,
\* the normalized registry name and the decoded entry
HarvestedEntries ==
    UNION {
        LET valid == validDockerConfigSecret(secrets.Items[i])
        IN  IF valid.err THEN {}
            ELSE {[name  |-> normalizeSecretRegistry(r),
                   entry |-> decodeDockerAuth(valid.cfg.Auths[r]).entry] :
                     r \in {k \in DOMAIN valid.cfg.Auths :
                               ~decodeDockerAuth(valid.cfg.Auths[k]).err}}
        : i \in DOMAIN secrets.Items}

\* some mirror, or the image, has n as a literal prefix
Qualifies(n) ==
    \/ \E j \in DOMAIN mirrors :
          /\ Len(n) <= Len(mirrors[j])
          /\ \A x \in 1..Len(n) : mirrors[j][x] = n[x]
    \/ /\ Len(n) <= Len(image)
       /\ \A x \in 1..Len(n) : image[x] = n[x]

\* the auth strings of those entries of harvest whose name is n
ValuesIn(harvest, n) ==
    {EncodeToString(h.entry.Username \o <<58>> \o h.entry.Password) :
        h \in {e \in harvest : e.name = n}}

\* the auth strings of the harvested entries of name n
SecretValues(n) == ValuesIn(HarvestedEntries, n)

MergeDone == entry = "updateAuthContents" /\ pc = "done"

\* C1: after updateAuthContents, for every entry harvested from the secrets
\* under the normalized registry name n: the entry's name is among the merged
\* auths, and the result holds a secret's credentials under n, if and only if
\* some mirror has n as a literal prefix or the image has n as a literal prefix.
C1_MergedIffQualifies ==
    MergeDone =>
      LET harvest == HarvestedEntries
      IN  \A h \in harvest :
            /\ h.name \in DOMAIN auths <=> Qualifies(h.name)
            /\ Qualifies(h.name) =>
                  /\ h.name \in DOMAIN authfileContents.Auths
                  /\ authfileContents.Auths[h.name].Auth \in ValuesIn(harvest, h.name)
            /\ ~Qualifies(h.name) =>
                  /\ h.name \in DOMAIN authfileContents.Auths
                        <=> h.name \in DOMAIN globalAuthContents.Auths
                  /\ h.name \in DOMAIN globalAuthContents.Auths =>
                        authfileContents.Auths[h.name] = globalAuthContents.Auths[h.name]

\* a merge where one entry qualifies by a mirror alone, one by the image
\* alone, and one not at all
C1_Witness ==
    /\ MergeDone
    /\ \E h \in HarvestedEntries :
          /\ h.name \in DOMAIN auths
          /\ ~HasPrefix(image, h.name)
    /\ \E h \in HarvestedEntries :
          /\ h.name \in DOMAIN auths
          /\ \A j \in DOMAIN mirrors : ~HasPrefix(mirrors[j], h.name)
    /\ \E h \in HarvestedEntries : h.name \notin DOMAIN authfileContents.Auths

\* C2: after updateAuthContents, a key with a qualifying secret entry maps to
\* the credentials of such an entry, also when the global map has the key; a
\* global key no qualifying secret entry touches keeps its global value; no
\* global key is missing from the result; and when no secret entry qualifies
\* the result's entries are those of the global map.
C2_MergePrecedence ==
    MergeDone =>
      LET harvest == HarvestedEntries
      IN  /\ \A h \in harvest :
                Qualifies(h.name) =>
                    /\ h.name \in DOMAIN authfileContents.Auths
                    /\ authfileContents.Auths[h.name].Auth \in ValuesIn(harvest, h.name)
          /\ \A k \in DOMAIN globalAuthContents.Auths :
                /\ k \in DOMAIN authfileContents.Auths
                /\ (\A h \in harvest : h.name = k => ~Qualifies(k)) =>
                      authfileContents.Auths[k] = globalAuthContents.Auths[k]
          /\ (\A h \in harvest : ~Qualifies(h.name)) =>
                authfileContents.Auths = globalAuthContents.Auths

\* a merge where the secret's "u:p" replaced the global map's "g:h" under "q"
\* and the global entry under another key stayed
C2_Witness ==
    /\ MergeDone
    /\ RegQ \in DOMAIN globalAuthContents.Auths
    /\ globalAuthContents.Auths[RegQ].Auth = AuthGH
    /\ RegQ \in DOMAIN authfileContents.Auths
    /\ authfileContents.Auths[RegQ].Auth = AuthUP
    /\ SecretValues(RegQ) = {AuthUP}

-----------------------------------------------------------------------------
(* The claim extractor (ExtractNamespace).                                 *)

ExtractDone == entry = "ExtractNamespace" /\ pc = "done"

\* the token of request r is well formed and its kubernetes.io claim is a
\* map whose namespace field is a string
Carries(r) ==
    /\ ~r.nil
    /\ r.ServiceAccountToken.form = "jwt"
    /\ \E c \in K8sClaims :
          /\ k8sClaimKey \in DOMAIN r.ServiceAccountToken.claims
          /\ r.ServiceAccountToken.claims[k8sClaimKey] = c
          /\ c.kind = "map"
          /\ \E n \in Namespaces :
                /\ "namespace" \in DOMAIN c.fields
                /\ c.fields["namespace"] = JString(n)

CarriesNamespace == Carries(req)

\* C3: ExtractNamespace returns the string in the namespace field of the
\* token's kubernetes.io claim, with no error, for every well-formed token
\* that carries it, and an error with the empty namespace for a nil request,
\* an empty token, a token that does not parse, a missing claim, a claim that
\* is no map, a map without namespace, and a namespace that is no string.
C3_ExtractNamespace ==
    ExtractDone =>
        IF CarriesNamespace
        THEN /\ err = ""
             /\ JString(namespace) =
                    req.ServiceAccountToken.claims[k8sClaimKey].fields["namespace"]
        ELSE /\ err # ""
             /\ namespace = <<>>

\* the namespace "n-" came out of a token
C3_Witness ==
    /\ ExtractDone
    /\ CarriesNamespace
    /\ err = ""
    /\ namespace = <<110, 45>>

-----------------------------------------------------------------------------
(* One invocation (Run).                                                   *)

RunDone == entry = "Run" /\ pc = "done"

\* the path an invocation would write its auth file to
OutputPath == [dir |-> authDir, namespace |-> namespace, sum |-> Sum256Hex(req.Image)]

\* the registries configuration exists and the mirror resolution came back
\* with an empty list
NoMirrorsCase ==
    /\ registriesConf = "present"
    /\ calls.match = 1
    /\ Len(req.Image) > 0
    /\ ~resolver.err
    /\ ~resolver.found \/ Len(resolver.Mirrors) = 0

\* on the path of NoMirrorsCase no secret is listed, the global file is not
\* read and CreateAuthFile is not called
NoMirrorsQuiet ==
    /\ calls.client = 0
    /\ calls.list = 0
    /\ calls.readGlobal = 0
    /\ calls.create = 0
    /\ calls.write = 0

\* C4 as stated: when the registries configuration exists and the mirror
\* resolution returns an empty list, Run returns success and emits the
\* response, the secret-listing client is never called, the global credential
\* file is never read, CreateAuthFile is never invoked, and no file exists at
\* the output path afterwards.
C4_NoMirrors_AsStated ==
    (RunDone /\ NoMirrorsCase) =>
        /\ err = ""
        /\ stdout = <<Response>>
        /\ NoMirrorsQuiet
        /\ OutputPath \notin DOMAIN fs.files

\* C4 amended: when the registries configuration exists and the mirror
\* resolution returns an empty list, Run returns success and emits the
\* response, the secret-listing client is never called, the global credential
\* file is never read, CreateAuthFile is never invoked, and the file system is
\* left as it was: no file is created, changed or removed, so a file is at the
\* output path afterwards only if one was there before.
C4_NoMirrors ==
    (RunDone /\ NoMirrorsCase) =>
        /\ err = ""
        /\ stdout = <<Response>>
        /\ NoMirrorsQuiet
        /\ fs = fs0
        /\ OutputPath \in DOMAIN fs.files <=> OutputPath \in DOMAIN fs0.files

\* an invocation that found a registry entry without mirrors and returned
\* with the response written
C4_Witness ==
    /\ RunDone
    /\ NoMirrorsCase
    /\ resolver.found
    /\ stdout = <<Response>>
    /\ fs0 = EmptyFS

\* C5: when the registries configuration path does not exist, Run returns
\* success and emits the response without reading stdin, whatever stands on
\* stdin; it extracts no namespace, calls no secret-listing client and writes
\* no credential file.  Any other error of the access to that path is returned
\* as a failure.
C5_MissingRegistriesConf ==
    /\ registriesConf = "missing" =>
          /\ calls.stdin = 0
          /\ calls.extract = 0
          /\ calls.client = 0
          /\ calls.list = 0
          /\ calls.write = 0
          /\ fs = fs0
          /\ RunDone => err = "" /\ stdout = <<Response>>
    /\ (registriesConf = "inaccessible" /\ RunDone) =>
          /\ err # ""
          /\ stdout = <<>>
          /\ calls.stdin = 0

\* an invocation without registries configuration that returned success over
\* a stdin that is no JSON document
C5_Witness ==
    /\ RunDone
    /\ registriesConf = "missing"
    /\ ~stdin.json
    /\ err = ""
    /\ stdout = <<Response>>

\* the input on stdin is malformed: it is no JSON document, or the token is
\* empty or does not parse, or its namespace claim has the wrong shape
MalformedInput == ~stdin.json \/ ~Carries(stdin.request)

\* C6 as stated: every invocation whose input is malformed terminates
\* reporting failure, and no credential file is created or modified by it.
C6_MalformedInput_AsStated ==
    (RunDone /\ MalformedInput) =>
        /\ err # ""
        /\ fs = fs0

\* C6 amended: every invocation whose input is malformed, unless it stops at
\* a missing registries configuration before it reads its input, terminates
\* reporting failure and writes no response; and no invocation whose input is
\* malformed creates or modifies a credential file.
C6_MalformedInput ==
    MalformedInput =>
        /\ fs = fs0
        /\ calls.write = 0
        /\ (RunDone /\ registriesConf # "missing") => (err # "" /\ stdout = <<>>)

\* an invocation that read a token of the wrong shape and returned an error,
\* with a credential file of an earlier run in place
C6_Witness ==
    /\ RunDone
    /\ registriesConf = "present"
    /\ stdin.json
    /\ stdin.request.ServiceAccountToken = TokenOf(JNumber)
    /\ calls.extract = 1
    /\ err = "errNamespaceNotString"
    /\ fs0 = StaleFS

\* the secret listing of this invocation failed
ListingFailed ==
    /\ calls.client = 1
    /\ cluster.clientErr \/ cluster.listErr # "none"

\* C7: if the secret listing fails (the client cannot be made, the API
\* answers with an error, or the call times out) Run returns an error; the
\* listing is attempted at most once in an invocation; and on that failure no
\* credential file is written and no response is emitted.
C7_ListingFailure ==
    /\ calls.client <= 1
    /\ calls.list <= 1
    /\ ListingFailed =>
          /\ fs = fs0
          /\ stdout = <<>>
          /\ calls.create = 0
          /\ pc = "done"
          /\ err # ""

\* an invocation whose List call timed out
C7_Witness ==
    /\ RunDone
    /\ cluster.listErr = "timeout"
    /\ calls.list = 1
    /\ err = "unable to retrieve secrets"

\* C8: every invocation of Run that returns success has written exactly one
\* response to stdout, every one that returns an error has written none, and
\* the response is the same fixed document on every path, with no credentials
\* in it.
C8_OneResponse ==
    /\ Len(stdout) <= 1
    /\ \A i \in DOMAIN stdout :
          /\ stdout[i] = Response
          /\ DOMAIN stdout[i].Auth = {}
    /\ RunDone => (err = "" <=> Len(stdout) = 1)
    /\ ~RunDone => stdout = <<>>

\* an invocation that wrote its auth file and then the response
C8_Witness ==
    /\ RunDone
    /\ err = ""
    /\ path # NoPath
    /\ path \in DOMAIN fs.files
    /\ stdout = <<Response>>

-----------------------------------------------------------------------------
(* Persist (CreateAuthFile, writeAuthFile, FilePath).                      *)

PersistDone == entry \in {"CreateAuthFile", "writeAuthFile"} /\ pc = "done"

\* dir/<namespace>-<hex sha256(image)>.json of this call
ExpectedPath ==
    [dir |-> authDir, namespace |-> namespace, sum |-> Sum256Hex(image)]

\* C9: the output path is a function of (dir, namespace, image) only: a call
\* that succeeds returns dir/<namespace>-<hex sha256(image)>.json whatever the
\* secrets, the mirrors and the merged map are, the file with the merged map
\* is at exactly that path, every other file is as it was, and a call that
\* fails returns no path.
C9_PathDeterminism ==
    /\ (PersistDone /\ err = "") =>
          /\ path = ExpectedPath
          /\ path \in DOMAIN fs.files
          /\ fs.files[path].data = "full"
          /\ fs.files[path].json = authfileContents
          /\ \A q \in DOMAIN fs.files \ {path} :
                q \in DOMAIN fs0.files /\ fs.files[q] = fs0.files[q]
    /\ (~PersistDone \/ err # "") => path = NoPath

\* a call of CreateAuthFile with secrets and mirrors that returned the path
\* of the file it wrote over a stale one
C9_Witness ==
    /\ PersistDone
    /\ entry = "CreateAuthFile"
    /\ err = ""
    /\ Len(secrets.Items) > 0
    /\ Len(mirrors) > 0
    /\ path = ExpectedPath
    /\ path \in DOMAIN fs0.files
    /\ fs.files[path] # fs0.files[path]

\* the namespace is empty, or the image is empty, or the directory is not an
\* absolute path (the empty directory string is not absolute)
BadPersistInput ==
    \/ namespace = <<>>
    \/ image = <<>>
    \/ authDir = <<>>
    \/ Head(authDir) # 47

\* C10: when the namespace is empty, or the image is empty, or the directory
\* is not an absolute path (the empty directory string included), the call
\* returns an error and no path, and no credential file is created, cut or
\* written at any moment of the call.
C10_PersistRejects ==
    BadPersistInput =>
        /\ fs.files = fs0.files
        /\ path = NoPath
        /\ pc \notin {"OpenFile", "Encode"}
        /\ calls.open = 0
        /\ PersistDone => err # ""

\* a call of writeAuthFile with an empty namespace and a map with entries
\* that was turned down where the path is built
C10_Witness ==
    /\ PersistDone
    /\ entry = "writeAuthFile"
    /\ namespace = <<>>
    /\ image # <<>>
    /\ authDir = DirAbs
    /\ Cardinality(DOMAIN authfileContents.Auths) > 0
    /\ calls.mkdir = 1
    /\ err = "get auth path"

\* C11: when the merged map has no entries, writeAuthFile returns the error
\* of a map without auths, and on that path the output directory is not made
\* and no file is created, cut or written: the file system stays as it was.
C11_NoAuthsNoWrite ==
    (entry \in {"CreateAuthFile", "writeAuthFile"}
        /\ calls.write > 0
        /\ DOMAIN authfileContents.Auths = {}) =>
        /\ pc = "done"
        /\ err = "errNoAuths"
        /\ path = NoPath
        /\ calls.mkdir = 0
        /\ calls.open = 0
        /\ fs = fs0

\* a call of CreateAuthFile with secrets of which none applies and a global
\* file without entries, turned down by writeAuthFile in an empty file system
C11_Witness ==
    /\ PersistDone
    /\ entry = "CreateAuthFile"
    /\ Len(secrets.Items) > 0
    /\ Len(mirrors) > 0
    /\ calls.write = 1
    /\ err = "errNoAuths"
    /\ authDir = DirAbs
    /\ fs0 = EmptyFS
    /\ fs = EmptyFS

\* the global auth file has been read in this call
GlobalRead ==
    entry \in {"CreateAuthFile", "writeAuthFile"} /\ calls.readGlobal = 1

\* the call ended with the error of readGlobalAuthFile
GlobalReadFailed ==
    /\ pc = "done"
    /\ err \in {"unable to read global auth file", "unmarshaling JSON"}

\* C12: a global auth file that does not exist loads as an empty map that is
\* not nil, without error; one that is no valid JSON, or cannot be read for
\* another reason, ends CreateAuthFile with an error before any merge and
\* before any write; a valid one loads as exactly its auths entries.
C12_GlobalFileLoading ==
    GlobalRead =>
        /\ globalFile.state = "absent" =>
              /\ ~GlobalReadFailed
              /\ ~globalAuthContents.nil
              /\ DOMAIN globalAuthContents.Auths = {}
        /\ globalFile.state \in {"invalid", "unreadable"} =>
              /\ GlobalReadFailed
              /\ calls.update = 0
              /\ calls.write = 0
              /\ calls.mkdir = 0
              /\ auths = EmptyMap
              /\ authfileContents = ZeroConfigJSON
              /\ path = NoPath
              /\ fs = fs0
        /\ globalFile.state = "valid" =>
              /\ ~GlobalReadFailed
              /\ globalAuthContents = globalFile.contents

\* a call of CreateAuthFile with secrets that ended at a global auth file
\* that is no JSON, with a file of an earlier call left as it was
C12_Witness ==
    /\ PersistDone
    /\ GlobalRead
    /\ globalFile.state = "invalid"
    /\ Len(secrets.Items) > 0
    /\ err = "unmarshaling JSON"
    /\ fs0 = StaleFS
    /\ fs = StaleFS

-----------------------------------------------------------------------------
(* Records and entries that are skipped.                                   *)

\* a secret that is not of the docker-config type, or lacks the
\* .dockerconfigjson key, or whose payload does not parse
BadRecord(secret) ==
    \/ secret.Type # "kubernetes.io/dockerconfigjson"
    \/ ".dockerconfigjson" \notin DOMAIN secret.Data
    \/ ~secret.Data[".dockerconfigjson"].json

\* the list without its bad records
GoodRecords(items) == SelectSeq(items, LAMBDA x : ~BadRecord(x))

\* the maps updateAuthContents may collect from a list, one per order in
\* which the run may range over the secrets' maps
Collectable(items) ==
    {collectAuths([nil |-> FALSE, Items |-> items], o, image, mirrors) :
        o \in IterationOrders(items)}

\* C13: a secret that is not of the docker-config type, or lacks the
\* .dockerconfigjson key, or whose payload does not parse, never fails the
\* merge and adds nothing to it: what is collected and merged from a list
\* with such records is what is collected and merged from the list without
\* them, whatever stands before or after them.
C13_BadRecordsSkipped ==
    LET good == Collectable(GoodRecords(secrets.Items))
    IN  /\ Collectable(secrets.Items) = good
        /\ MergeDone =>
              /\ err = ""
              /\ auths \in good
              /\ authfileContents = mergeAuths(globalAuthContents, auths)

\* a merge of an opaque secret, whose entry for "q" would have applied for
\* the mirror "q/f", followed by a good secret whose entry did apply
C13_Witness ==
    /\ MergeDone
    /\ Len(secrets.Items) = 2
    /\ secrets.Items[1].Name = "s5"
    /\ secrets.Items[2].Name = "s4"
    /\ image = ImageX
    /\ mirrors = <<RegQF>>
    /\ DOMAIN auths = {RegQF}
    /\ RegQ \notin DOMAIN authfileContents.Auths

\* the registry keys of a good record whose auth string is valid base64
DecodableKeys(secret) ==
    {k \in DOMAIN secret.Data[".dockerconfigjson"].cfg.Auths :
        ~DecodeString(secret.Data[".dockerconfigjson"].cfg.Auths[k].Auth).err}

\* the secret without its entries whose auth string is not valid base64
WithoutBadEntries(secret) ==
    IF BadRecord(secret) THEN secret
    ELSE [secret EXCEPT !.Data[".dockerconfigjson"].cfg.Auths =
             [k \in DecodableKeys(secret) |-> @[k]]]

\* the list with each secret freed of such entries
DecodableItems(items) == [i \in DOMAIN items |-> WithoutBadEntries(items[i])]

\* C14: an auth entry whose auth string is not valid base64 is skipped alone:
\* what is collected and merged is what is collected and merged from the same
\* secrets without such entries, so the other entries of the same secret and
\* the entries of the other secrets are evaluated and merged as ever.
C14_BadEntrySkipped ==
    LET decodable == Collectable(DecodableItems(secrets.Items))
    IN  /\ Collectable(secrets.Items) = decodable
        /\ MergeDone =>
              /\ auths \in decodable
              /\ authfileContents = mergeAuths(globalAuthContents, auths)

\* a merge of the secret with "r" under an auth string that is no base64 and
\* "q/f" under a good one, and of a second secret with "q": the image "r/i"
\* would have let "r" in; "q/f" and "q" are merged for the mirror "q/f"
C14_Witness ==
    /\ MergeDone
    /\ Len(secrets.Items) = 2
    /\ secrets.Items[1].Name = "s4"
    /\ secrets.Items[2].Name = "s1"
    /\ image = ImageR
    /\ mirrors = <<RegQF>>
    /\ DOMAIN auths = {RegQF, RegQ}
    /\ RegR \notin DOMAIN authfileContents.Auths
    /\ authfileContents.Auths[RegQF].Auth = AuthUP

-----------------------------------------------------------------------------
(* decodeDockerAuth.                                                       *)

DecodeDone == entry = "decodeDockerAuth" /\ pc = "done"

\* the index of the first ':' of text t, 0 when it has none
FirstColon(t) ==
    IF \E i \in DOMAIN t : t[i] = 58
    THEN CHOOSE i \in DOMAIN t : t[i] = 58 /\ \A j \in 1..(i - 1) : t[j] # 58
    ELSE 0

\* text t without the NUL bytes at its two ends
StripNUL(t) ==
    LET kept == {i \in DOMAIN t : t[i] # 0}
    IN  IF kept = {} THEN <<>>
        ELSE SubSeq(t, CHOOSE i \in kept : \A j \in kept : i <= j,
                       CHOOSE i \in kept : \A j \in kept : i >= j)

\* C15 as stated: for an auth string that is the base64 of a text with a ':'
\* the username is the text before the first ':' and the password is the text
\* after it; a text without ':' gives the empty username and password and no
\* error; an auth string that is not base64 gives an error.
C15_DecodeDockerAuth_AsStated ==
    DecodeDone =>
        /\ ~arg.base64 => ret.err
        /\ (arg.base64 /\ FirstColon(arg.raw) = 0) =>
              ret = [err |-> FALSE, entry |-> [Username |-> <<>>, Password |-> <<>>]]
        /\ (arg.base64 /\ FirstColon(arg.raw) > 0) =>
              /\ ~ret.err
              /\ ret.entry.Username = SubSeq(arg.raw, 1, FirstColon(arg.raw) - 1)
              /\ ret.entry.Password =
                     SubSeq(arg.raw, FirstColon(arg.raw) + 1, Len(arg.raw))

\* C15 amended: for an auth string that is the base64 of a text with a ':'
\* the username is the text before the first ':' and the password is the text
\* after it without the NUL bytes at its two ends (so a password may hold
\* ':'); a text without ':' gives the empty username and password and no
\* error; an auth string that is not base64 gives an error.
C15_DecodeDockerAuth ==
    DecodeDone =>
        /\ ~arg.base64 => ret.err
        /\ (arg.base64 /\ FirstColon(arg.raw) = 0) =>
              ret = [err |-> FALSE, entry |-> [Username |-> <<>>, Password |-> <<>>]]
        /\ (arg.base64 /\ FirstColon(arg.raw) > 0) =>
              /\ ~ret.err
              /\ ret.entry.Username = SubSeq(arg.raw, 1, FirstColon(arg.raw) - 1)
              /\ ret.entry.Password =
                     StripNUL(SubSeq(arg.raw, FirstColon(arg.raw) + 1, Len(arg.raw)))

\* the decoding of base64("u:p:"): the user is "u" and the password "p:"
\* holds a ':'
C15_Witness ==
    /\ DecodeDone
    /\ arg.base64
    /\ arg.raw = <<117, 58, 112, 58>>
    /\ ret = [err |-> FALSE, entry |-> [Username |-> <<117>>, Password |-> <<112, 58>>]]

-----------------------------------------------------------------------------
(* Mirrors without credentials.                                            *)

\* the merge of this invocation found no entry of a secret that applies, and
\* the global map has no entry
NoCredentialsCase ==
    /\ entry = "Run"
    /\ calls.update = 1
    /\ \A h \in HarvestedEntries : ~Qualifies(h.name)
    /\ DOMAIN globalAuthContents.Auths = {}

\* the errors of the hard failures of Run after the mirrors are known
HardFailures ==
    {"unable to connect to Kubernetes API", "unable to retrieve secrets",
     "errNamespaceEmpty", "errSecretsNil",
     "unable to read global auth file", "unmarshaling JSON",
     "ensure auth dir", "get auth path", "open auth file", "encode auth file"}

\* C16: when mirrors are configured but no entry of a secret applies and the
\* global map has no entry, Run comes to an end and returns the error of a map
\* without auths: no file and no directory is written, no response is
\* emitted, and that error is none of the errors Run returns for a hard
\* failure, nor does a hard failure ever return it.
C16_NoCredentialsOutcome ==
    /\ NoCredentialsCase =>
          /\ Len(mirrors) > 0
          /\ fs = fs0
          /\ stdout = <<>>
          /\ pc \in {"writeAuthFile", "done"}
          /\ pc = "done" => (err = "errNoAuths" /\ err \notin HardFailures)
    /\ (RunDone /\ err = "errNoAuths") => NoCredentialsCase
    /\ (RunDone /\ (ListingFailed \/ GlobalReadFailed)) => err \in HardFailures

\* an invocation with a mirror, a listed secret whose entry does not apply
\* and no global auth file, ended with the error of a map without auths
C16_Witness ==
    /\ RunDone
    /\ NoCredentialsCase
    /\ mirrors = <<MirrorMQ>>
    /\ Len(secrets.Items) > 0
    /\ HarvestedEntries # {}
    /\ globalFile.state = "absent"
    /\ err = "errNoAuths"
    /\ fs0 = StaleFS

-----------------------------------------------------------------------------
(* Persist, twice.                                                         *)

TwiceDone == entry = "writeAuthFileTwice" /\ pc = "done" /\ arg.call = 2

\* the errors of a directory that cannot be made and a file that cannot be
\* opened or written
IOFailures == {"ensure auth dir", "open auth file", "encode auth file"}

\* C17: when the same merged map is persisted twice to the same directory,
\* namespace and image and the first call succeeds, the second call, unless
\* the directory cannot be made or the file cannot be opened or written,
\* succeeds too, returns the path the first call returned, and leaves the
\* file, and the file system, as they were after the first call.
C17_PersistIdempotent ==
    (TwiceDone /\ ret.err = "" /\ err \notin IOFailures) =>
        /\ err = ""
        /\ path = ret.path
        /\ path \in DOMAIN fs.files
        /\ fs.files[path] = ret.fs.files[path]
        /\ fs.files[path].json = authfileContents
        /\ fs = ret.fs

\* two calls that succeeded, the first of them over a stale file
C17_Witness ==
    /\ TwiceDone
    /\ ret.err = ""
    /\ err = ""
    /\ calls.encode = 2
    /\ fs0 = StaleFS
    /\ ret.fs # fs0
    /\ path = ret.path
    /\ fs = ret.fs

-----------------------------------------------------------------------------
(* The permissions of what Persist writes.                                 *)

\* C18: after every successful Persist the file at the output path has mode
\* 0600 and holds exactly the new merged map, also when a file with other
\* content or other permissions was at that path before; and the directory,
\* when it was absent, is made with mode 0700.
C18_OwnerOnly ==
    (PersistDone /\ err = "") =>
        /\ path \in DOMAIN fs.files
        /\ fs.files[path].mode = "0600"
        /\ fs.files[path].data = "full"
        /\ fs.files[path].json = authfileContents
        /\ authDir \notin DOMAIN fs0.dirs => fs.dirs[authDir] = "0700"

\* a successful Persist over a file of mode 0644: the file holds the new map
\* and still has mode 0644
C18_Witness ==
    /\ PersistDone
    /\ err = ""
    /\ path \in DOMAIN fs0.files
    /\ fs0.files[path].mode = "0644"
    /\ fs.files[path].json = authfileContents
    /\ fs.files[path].mode = "0644"

-----------------------------------------------------------------------------
(* normalizeSecretRegistry.                                                *)

NormalizeDone == entry = "normalizeSecretRegistry" /\ pc = "done"

\* text t is text r, or r without a leading "http://" or "https://"
OnlySchemeRemoved(r, t) ==
    \/ t = r
    \/ /\ Len(r) >= 7
       /\ SubSeq(r, 1, 7) = <<104, 116, 116, 112, 58, 47, 47>>
       /\ t = SubSeq(r, 8, Len(r))
    \/ /\ Len(r) >= 8
       /\ SubSeq(r, 1, 8) = <<104, 116, 116, 112, 115, 58, 47, 47>>
       /\ t = SubSeq(r, 9, Len(r))

\* C19: normalizeSecretRegistry is idempotent and keeps the characters: for
\* every registry key r, normalize(normalize(r)) = normalize(r), and
\* normalize(r) is r with at most a leading "http://" or "https://" removed
\* and nothing else changed.
C19_NormalizeIdempotent ==
    /\ (entry = "normalizeSecretRegistry" /\ Len(ret) >= 1) =>
          OnlySchemeRemoved(arg, ret[1])
    /\ NormalizeDone => ret[2] = ret[1]

\* the key "https://http://q": the first call gives "http://q", the second
\* call gives "q"
C19_Witness ==
    /\ NormalizeDone
    /\ arg = <<104, 116, 116, 112, 115, 58, 47, 47>>
                \o <<104, 116, 116, 112, 58, 47, 47>> \o <<113>>
    /\ ret[1] = <<104, 116, 116, 112, 58, 47, 47, 113>>
    /\ ret[2] = <<113>>

-----------------------------------------------------------------------------
(* A token that asserts the empty namespace.                               *)

\* Run has read a request whose token asserts the namespace ""
EmptyNamespaceAsserted ==
    /\ entry = "Run"
    /\ ~req.nil
    /\ req.ServiceAccountToken = TokenOf(JString(<<>>))

\* C20: an invocation whose token asserts the empty namespace never
\* proceeds: the secret listing is never called with the empty namespace, and
\* Run never returns success for such a request.
C20_EmptyNamespaceStops ==
    EmptyNamespaceAsserted =>
        /\ calls.client = 0
        /\ calls.list = 0
        /\ pc = "done" => err # ""

\* an invocation whose token asserts the empty namespace, with a mirror: the
\* secrets were listed with the namespace "", and only then CreateAuthFile
\* turned the namespace down
C20_Witness ==
    /\ RunDone
    /\ EmptyNamespaceAsserted
    /\ namespace = <<>>
    /\ Len(mirrors) > 0
    /\ calls.list = 1
    /\ cluster.listErr = "none"
    /\ err = "errNamespaceEmpty"

\* an invocation whose token asserts the empty namespace, without mirrors:
\* Run returned success
EmptyNamespaceSucceeds ==
    /\ RunDone
    /\ EmptyNamespaceAsserted
    /\ calls.extract = 1
    /\ err = ""
    /\ stdout = <<Response>>

-----------------------------------------------------------------------------
(* The merge as a function of its arguments.                               *)

\* the secrets of the list, by index, that are good records with an entry
\* that decodes and has the normalized registry name n
SecretsFor(n) ==
    {i \in DOMAIN secrets.Items :
        /\ ~validDockerConfigSecret(secrets.Items[i]).err
        /\ \E r \in DOMAIN validDockerConfigSecret(secrets.Items[i]).cfg.Auths :
              /\ normalizeSecretRegistry(r) = n
              /\ ~decodeDockerAuth(
                      validDockerConfigSecret(secrets.Items[i]).cfg.Auths[r]).err}

\* the decoded entries of name n of the secret at index i
EntriesOf(i, n) ==
    {decodeDockerAuth(validDockerConfigSecret(secrets.Items[i]).cfg.Auths[r]).entry :
        r \in {k \in DOMAIN validDockerConfigSecret(secrets.Items[i]).cfg.Auths :
                  /\ normalizeSecretRegistry(k) = n
                  /\ ~decodeDockerAuth(
                          validDockerConfigSecret(secrets.Items[i]).cfg.Auths[k]).err}}

\* C21: the merged map is a function of the secret list, the global map, the
\* image and the mirror list: whatever order the run takes through the
\* registry keys of each secret's map, the result is the one this run
\* returned; and of several entries for one normalized registry name the one
\* of the secret that comes last in the list wins.
C21_Deterministic ==
    MergeDone =>
        /\ \A o \in IterationOrders(secrets.Items) :
              updateAuthContents(secrets, o, globalAuthContents, image, mirrors)
                  = authfileContents
        /\ \A n \in DOMAIN auths :
              \E i \in SecretsFor(n) :
                  /\ \A j \in SecretsFor(n) : j <= i
                  /\ auths[n] \in EntriesOf(i, n)

\* a merge of the one secret with the keys "http://q" and "https://q" for the
\* mirror "q/f": this run stored "v:w" under "q", and the run that takes the
\* keys in the other order stores "u:p"
C21_Witness ==
    /\ MergeDone
    /\ Len(secrets.Items) = 1
    /\ secrets.Items[1].Name = "s3"
    /\ mirrors = <<RegQF>>
    /\ authfileContents.Auths[RegQ].Auth = AuthVW
    /\ \E o \in IterationOrders(secrets.Items) :
          updateAuthContents(secrets, o, globalAuthContents, image, mirrors)
              .Auths[RegQ].Auth = AuthUP

-----------------------------------------------------------------------------
(* Two invocations that write the same file.                               *)

\* both invocations have returned, and both without error
OverlapDone ==
    /\ entry = "writeAuthFileOverlap"
    /\ \A w \in DOMAIN writers : writers[w].pc = "done" /\ writers[w].err = ""

\* C22: when two invocations persist to the same directory, namespace and
\* image, with their open and write steps interleaved in any order, the file
\* holds, once both have completed, exactly the complete document that one of
\* the two wrote, never bytes of both.
C22_LastWriterWins ==
    OverlapDone =>
        \E w \in DOMAIN writers : disk = EncodedBytes(writers[w].fileContents)

\* both invocations opened the file before either wrote, and the one with
\* the shorter document wrote last: the file begins with the whole shorter
\* document and goes on with the end of the longer one
C22_Witness ==
    /\ OverlapDone
    /\ \E w, v \in DOMAIN writers :
          LET short == EncodedBytes(writers[w].fileContents)
              long == EncodedBytes(writers[v].fileContents)
          IN  /\ Len(short) < Len(long)
              /\ Len(disk) = Len(long)
              /\ SubSeq(disk, 1, Len(short)) = short
              /\ SubSeq(disk, Len(short) + 1, Len(disk))
                     = SubSeq(long, Len(short) + 1, Len(long))

-----------------------------------------------------------------------------
(* The keys of the merged map.                                             *)

\* C23: every key of the merged map is a key of the global map or the
\* normalized registry name of a secret entry that qualifies; a mirror is a
\* key only if it is such a key or name, never because it is in the mirror
\* list.  The secret key "http://q" with the mirror "r" and the image "q/i"
\* gives the key "q" and not "r"; the secret key "https://q" with the mirror
\* "q/f" gives the key "q".
C23_KeyOrigin ==
    MergeDone =>
      LET harvest == HarvestedEntries
          names == {h.name : h \in {e \in harvest : Qualifies(e.name)}}
      IN  /\ DOMAIN authfileContents.Auths \subseteq
                DOMAIN globalAuthContents.Auths \cup names
          /\ \A j \in DOMAIN mirrors :
                mirrors[j] \in DOMAIN authfileContents.Auths =>
                    mirrors[j] \in DOMAIN globalAuthContents.Auths \cup names
          /\ (DOMAIN globalAuthContents.Auths = {}
                /\ {secrets.Items[i].Name : i \in DOMAIN secrets.Items} = {"s3"}
                /\ mirrors = <<RegR>> /\ image = ImageQ) =>
                    DOMAIN authfileContents.Auths = {RegQ}
          /\ (DOMAIN globalAuthContents.Auths = {}
                /\ {secrets.Items[i].Name : i \in DOMAIN secrets.Items} = {"s1"}
                /\ mirrors = <<RegQF>> /\ image = ImageX) =>
                    DOMAIN authfileContents.Auths = {RegQ}

\* a merge of the secret with the key "https://q" for the mirror "q/f" and
\* the image "x/i": the only key is "q", and the mirror is no key
C23_Witness ==
    /\ MergeDone
    /\ Len(secrets.Items) = 1
    /\ secrets.Items[1].Name = "s1"
    /\ DOMAIN globalAuthContents.Auths = {}
    /\ mirrors = <<RegQF>>
    /\ image = ImageX
    /\ DOMAIN authfileContents.Auths = {RegQ}
    /\ RegQF \notin DOMAIN authfileContents.Auths

-----------------------------------------------------------------------------
(* The NUL padding of a password.                                          *)

\* text t up to its last byte that is not NUL
WithoutTrailingNUL(t) ==
    SubSeq(t, 1, IF \E i \in DOMAIN t : t[i] # 0
                 THEN CHOOSE i \in DOMAIN t :
                          t[i] # 0 /\ \A j \in (i + 1)..Len(t) : t[j] = 0
                 ELSE 0)

\* C24: for the base64 of a text with a ':', decodeDockerAuth gives as the
\* password the text after the first ':' with the NUL bytes at its end taken
\* off and no other byte changed, and as the username the text before the
\* first ':' as it is.
C24_TrailingNULOnly ==
    (DecodeDone /\ arg.base64 /\ \E i \in DOMAIN arg.raw : arg.raw[i] = 58) =>
        LET c == FirstColon(arg.raw)
        IN  /\ ret.entry.Username = [i \in 1..(c - 1) |-> arg.raw[i]]
            /\ ret.entry.Password =
                   WithoutTrailingNUL([i \in 1..(Len(arg.raw) - c) |-> arg.raw[c + i]])

\* the decoding of base64("u:\x00p"): the password is "p", the NUL byte at
\* its front is gone
C24_Witness ==
    /\ DecodeDone
    /\ arg.base64
    /\ arg.raw = <<117, 58, 0, 112>>
    /\ ~ret.err
    /\ ret.entry.Username = <<117>>
    /\ ret.entry.Password = <<112>>

-----------------------------------------------------------------------------
(* The global map after the merge.                                         *)

\* C25: the merge works on a copy of the global map: once updateAuthContents
\* has returned, the map that was passed in as the global map has exactly the
\* entries it had before the call, whatever entries of the secrets qualified.
C25_GlobalUntouched ==
    MergeDone =>
        /\ DOMAIN globalAuthsMap = DOMAIN globalAuthContents.Auths
        /\ \A k \in DOMAIN globalAuthsMap :
              globalAuthsMap[k] = globalAuthContents.Auths[k]

\* a merge over the global map {"q": "g:h"} of a secret with "u:p" for "q":
\* the caller's global map now holds "u:p" under "q"
C25_Witness ==
    /\ MergeDone
    /\ ~globalAuthContents.nil
    /\ DOMAIN globalAuthContents.Auths = {RegQ}
    /\ globalAuthContents.Auths[RegQ].Auth = AuthGH
    /\ authfileContents.Auths[RegQ].Auth = AuthUP
    /\ globalAuthsMap[RegQ].Auth = AuthUP

-----------------------------------------------------------------------------
(* What a reader finds at the output path.                                 *)

\* C26: at every point during and after a call of Persist, also when the
\* write fails midway or the call returns an error, the file at the output
\* path is absent, or holds the complete content it had before the call, or
\* holds the complete new merged map: a reader never finds an empty or a
\* cut-off credential file.
C26_NeverTorn ==
    (entry \in {"CreateAuthFile", "writeAuthFile"}
        /\ ExpectedPath \in DOMAIN fs.files) =>
        \/ /\ ExpectedPath \in DOMAIN fs0.files
           /\ fs.files[ExpectedPath].data = fs0.files[ExpectedPath].data
           /\ fs.files[ExpectedPath].json = fs0.files[ExpectedPath].json
        \/ /\ fs.files[ExpectedPath].data = "full"
           /\ fs.files[ExpectedPath].json = authfileContents

\* a call over the credential file of an earlier call whose Encode failed:
\* the call returned an error and the file is left with a part of a document
C26_Witness ==
    /\ PersistDone
    /\ err = "encode auth file"
    /\ ExpectedPath \in DOMAIN fs0.files
    /\ fs0.files[ExpectedPath].data = "full"
    /\ fs.files[ExpectedPath].data = "partial"

-----------------------------------------------------------------------------
(* Keys that normalize to one registry name.                               *)

\* C27: no two keys of the merged map normalize to the same registry name: a
\* secret entry for the name n that qualifies takes the place of a global
\* entry stored under "http://n" or "https://n" and does not stand beside it,
\* so that every key that normalizes to n carries the secret's credentials.
C27_OneKeyPerName ==
    MergeDone =>
        /\ \A k1, k2 \in DOMAIN authfileContents.Auths :
              normalizeSecretRegistry(k1) = normalizeSecretRegistry(k2) => k1 = k2
        /\ \A n \in DOMAIN auths :
              \A k \in DOMAIN authfileContents.Auths :
                  normalizeSecretRegistry(k) = n =>
                      authfileContents.Auths[k].Auth
                          = EncodeToString(auths[n].Username \o <<58>> \o auths[n].Password)

\* a merge over the global map {"https://q": "g:h", "k": "g:h"} of a secret
\* entry for "q": the result has "q" with the secret's credentials and still
\* has "https://q" with the global ones
C27_Witness ==
    /\ MergeDone
    /\ RegQ \in DOMAIN auths
    /\ RegQ \in DOMAIN authfileContents.Auths
    /\ (HTTPS \o RegQ) \in DOMAIN authfileContents.Auths
    /\ authfileContents.Auths[HTTPS \o RegQ].Auth = AuthGH
    /\ authfileContents.Auths[RegQ].Auth = AuthUP

-----------------------------------------------------------------------------
(* The value written for a secret entry.                                   *)

\* the auth strings of the good records of the list under a key that
\* normalizes to n, those that are not base64 left out
AuthStringsFor(n) ==
    UNION {
        IF BadRecord(secrets.Items[i]) THEN {}
        ELSE {secrets.Items[i].Data[".dockerconfigjson"].cfg.Auths[r].Auth :
                 r \in {k \in DecodableKeys(secrets.Items[i]) :
                           normalizeSecretRegistry(k) = n}}
        : i \in DOMAIN secrets.Items}

\* the text the base64 string a stands for has no ':'
NoColonIn(a) ==
    LET text == DecodeString(a).bytes
    IN  \A i \in DOMAIN text : text[i] # 58

\* "Og==", the base64 of ":"
EmptyPair == <<79, 103, 61, 61>>

\* C28: the value the merge writes for a secret entry that qualifies is the
\* base64 of username, ':' and password of the decoded pair, not the secret's
\* auth string as it was; an entry whose decoded text has no ':' is written
\* as the base64 of ":" (no username, no password), and it replaces a global
\* entry under the same normalized key like any other.
C28_WrittenValue ==
    MergeDone =>
        /\ \A n \in DOMAIN auths :
              \E a \in AuthStringsFor(n) :
                  LET pair == decodeDockerAuth([Auth |-> a]).entry
                  IN  /\ auths[n] = pair
                      /\ authfileContents.Auths[n].Auth
                             = EncodeToString(pair.Username \o <<58>> \o pair.Password)
                      /\ NoColonIn(a) => authfileContents.Auths[n].Auth = EmptyPair
        /\ \A n \in {normalizeSecretRegistry(k) :
                        k \in UNION {DecodableKeys(secrets.Items[i]) :
                                        i \in {j \in DOMAIN secrets.Items :
                                                  ~BadRecord(secrets.Items[j])}}} :
              (Qualifies(n) /\ \A a \in AuthStringsFor(n) : NoColonIn(a)) =>
                  /\ n \in DOMAIN authfileContents.Auths
                  /\ authfileContents.Auths[n].Auth = EmptyPair

\* a merge, for the image "r/i", of the secret whose entry for "r" is the
\* base64 of "u", over a global map with "g:h" for "r": "r" now holds the
\* base64 of ":"
C28_Witness ==
    /\ MergeDone
    /\ image = ImageR
    /\ RegR \in DOMAIN globalAuthContents.Auths
    /\ globalAuthContents.Auths[RegR].Auth = AuthGH
    /\ AuthStringsFor(RegR) = {AuthNoColon}
    /\ auths[RegR] = [Username |-> <<>>, Password |-> <<>>]
    /\ authfileContents.Auths[RegR].Auth = EmptyPair
    /\ authfileContents.Auths[RegR].Auth # AuthNoColon

-----------------------------------------------------------------------------
(* Validation before side effects.                                         *)

\* C29: writeAuthFile validates its inputs before it touches the file
\* system: whenever the call returns an error because the image is empty, the
\* namespace is empty or the directory is not an absolute path, no directory
\* has been made and no file has been created or cut.
C29_ValidateFirst ==
    (PersistDone /\ err # "" /\ calls.write = 1
        /\ (Len(image) = 0 \/ Len(namespace) = 0 \/ ~(Len(authDir) > 0 /\ authDir[1] = 47))) =>
        /\ DOMAIN fs.dirs = DOMAIN fs0.dirs
        /\ fs.files = fs0.files

\* a call with the empty namespace and the directory "/a", which was not
\* there: the call returned the error of the path, and "/a" is there now
C29_Witness ==
    /\ PersistDone
    /\ err = "get auth path"
    /\ namespace = <<>>
    /\ authDir = DirAbs
    /\ fs0 = EmptyFS
    /\ DOMAIN fs.dirs = {DirAbs}
    /\ fs.files = fs0.files

-----------------------------------------------------------------------------
(* The mirror scan with and without its early exit.                        *)

BothDone == entry = "updateAuthContents, both versions" /\ pc = "done"

=============================================================================
